---- MODULE Spec2Model ----
(***************************************************************************)
(* A model of the xtask schema translator of ls-types                      *)
(* (xtask/src/{schema,config,target,translate}.rs).                        *)
(*                                                                         *)
(* Rust values are modelled as follows.                                    *)
(*   SmolStr / String      a TLA+ string                                   *)
(*   Option<T>             a sequence of length <= 1: <<>> is None,        *)
(*                         <<x>> is Some(x)                                *)
(*   Vec<T>                a sequence                                      *)
(*   BTreeMap<K, V>        a function whose DOMAIN is the set of keys      *)
(*   BTreeSet<T>           a set                                           *)
(*   eyre::Result / panic  a record with a tag field                       *)
(***************************************************************************)
EXTENDS Integers, Sequences, FiniteSets, TLC

None == <<>>
Some(x) == <<x>>

\* let v = x; F(v): F applied to the value of x, computed once.
With(x, F(_)) == CHOOSE r \in {F(v) : v \in {x}} : TRUE

(***************************************************************************)
(* schema.rs: the recursive Type value.                                    *)
(***************************************************************************)
BaseType ==
    {"Uri", "DocumentUri", "Integer", "Uinteger", "Decimal", "RegExp",
     "String", "Boolean", "Null"}

Base(name) == [kind |-> "base", name |-> name]
Reference(name) == [kind |-> "reference", name |-> name]
Array(element) == [kind |-> "array", element |-> element]
Map(key, value) == [kind |-> "map", key |-> key, value |-> value]
Or(arms) == [kind |-> "or", items |-> arms]
Tuple(elements) == [kind |-> "tuple", items |-> elements]
Literal(value) == [kind |-> "literal", value |-> value]
StringLiteral(value) == [kind |-> "stringLiteral", value |-> value]
IntegerLiteral(value) == [kind |-> "integerLiteral", value |-> value]
BooleanLiteral(value) == [kind |-> "booleanLiteral", value |-> value]

Property(name, type_, documentation, optional, since, deprecated) ==
    [name |-> name, type_ |-> type_, documentation |-> documentation,
     optional |-> optional, since |-> since, since_tags |-> None,
     proposed |-> None, deprecated |-> deprecated]

StructureLiteral(properties) ==
    [properties |-> properties, documentation |-> None, since |-> None,
     since_tags |-> None, proposed |-> FALSE, deprecated |-> None]

(***************************************************************************)
(* target.rs: TypeRef is a newtype around its rendered text.               *)
(***************************************************************************)
RECURSIVE Join(_, _)
Join(strs, sep) ==
    IF strs = <<>> THEN ""
    ELSE IF Len(strs) = 1 THEN strs[1]
    ELSE strs[1] \o sep \o Join(Tail(strs), sep)

TypeRef_new(name) == name

TypeRef_new_generics(name, generics) ==
    name \o "<" \o Join(generics, ",") \o ">"

TypeRef_new_tuple(elements) == "(" \o Join(elements, ",") \o ")"

(***************************************************************************)
(* schema.rs: Type::into_reference.  The result is Some(text), None, or a  *)
(* panic (the unwrap in the Tuple arm).                                    *)
(***************************************************************************)
RefSome(text) == [tag |-> "some", val |-> text]
RefNone == [tag |-> "none", val |-> ""]
RefPanic == [tag |-> "panic", val |-> "called Option::unwrap() on a None value"]

into_reference_base(name) ==
    CASE name = "Uri" -> RefSome(TypeRef_new("Uri"))
      [] name = "DocumentUri" -> RefSome(TypeRef_new("DocumentUri"))
      [] name = "Integer" -> RefSome(TypeRef_new("i64"))
      [] name = "Uinteger" -> RefSome(TypeRef_new("u32"))
      [] name = "String" -> RefSome(TypeRef_new("String"))
      [] name = "Boolean" -> RefSome(TypeRef_new("bool"))
      [] OTHER -> RefNone

RECURSIVE into_reference(_)
RECURSIVE into_reference_all(_)

\* items.iter().map(|item| item.clone().into_reference().unwrap()).collect():
\* left to right, the first element that is None (or panics) panics.
into_reference_all(arms) ==
    IF arms = <<>> THEN [tag |-> "some", val |-> <<>>]
    ELSE With(into_reference(arms[1]), LAMBDA head :
         IF head.tag # "some" THEN [tag |-> "panic", val |-> <<>>]
         ELSE With(into_reference_all(Tail(arms)), LAMBDA rest :
              IF rest.tag # "some" THEN rest
              ELSE [tag |-> "some", val |-> <<head.val>> \o rest.val]))

into_reference(ty) ==
    CASE ty.kind = "reference" -> RefSome(TypeRef_new(ty.name))
      [] ty.kind = "base" -> into_reference_base(ty.name)
      [] ty.kind = "array" ->
            With(into_reference(ty.element), LAMBDA inner :
                 IF inner.tag = "some"
                 THEN RefSome(TypeRef_new_generics("Vec", <<inner.val>>))
                 ELSE inner)
      [] ty.kind = "tuple" ->
            With(into_reference_all(ty.items), LAMBDA arms :
                 IF arms.tag = "some"
                 THEN RefSome(TypeRef_new_tuple(arms.val))
                 ELSE RefPanic)
      [] OTHER -> RefNone

(***************************************************************************)
(* config.rs: Config::lookup_anon.                                         *)
(***************************************************************************)
LookupOk(ref_) == [tag |-> "Ok", val |-> ref_]
LookupErrNone == [tag |-> "ErrNone", val |-> ""]
LookupErrSome(key) == [tag |-> "ErrSome", val |-> key]
LookupPanic == [tag |-> "panic", val |-> RefPanic.val]

\* .map(into_reference).collect::<Option<Vec<TypeRef>>>(): the arms are
\* reduced left to right and the collection stops at the first None.
RECURSIVE collect_refs(_)
collect_refs(arms) ==
    IF arms = <<>> THEN [tag |-> "some", val |-> <<>>]
    ELSE With(into_reference(arms[1]), LAMBDA head :
         IF head.tag = "panic" THEN [tag |-> "panic", val |-> <<>>]
         ELSE IF head.tag = "none" THEN [tag |-> "none", val |-> <<>>]
         ELSE With(collect_refs(Tail(arms)), LAMBDA rest :
              IF rest.tag # "some" THEN rest
              ELSE [tag |-> "some", val |-> <<head.val>> \o rest.val]))

\* Mutant of anon_key: the key does not depend on the order of the arms.
RECURSIVE Reverse(_)
Reverse(seq) == IF seq = <<>> THEN <<>> ELSE Reverse(Tail(seq)) \o <<Head(seq)>>
anon_key_unordered(refs) ==
    IF Len(refs) = 2 /\ refs[1] = "B" THEN Join(Reverse(refs), "|")
    ELSE Join(refs, "|")

anon_key(refs) == Join(refs, "|")

\* Mutant of lookup_anon: an empty list of arms is no valid collection.
lookup_anon_rejects_empty(anon_mappings, arms) ==
    With(collect_refs(arms), LAMBDA refs :
    IF refs.tag = "panic" THEN LookupPanic
    ELSE IF refs.tag = "none" \/ arms = <<>> THEN LookupErrNone
    ELSE With(anon_key(refs.val), LAMBDA key :
         IF key \in DOMAIN anon_mappings
         THEN LookupOk(TypeRef_new(anon_mappings[key]))
         ELSE LookupErrSome(key)))

lookup_anon(anon_mappings, arms) ==
    With(collect_refs(arms), LAMBDA refs :
    IF refs.tag = "panic" THEN LookupPanic
    ELSE IF refs.tag = "none" THEN LookupErrNone
    ELSE With(anon_key(refs.val), LAMBDA key :
         IF key \in DOMAIN anon_mappings
         THEN LookupOk(TypeRef_new(anon_mappings[key]))
         ELSE LookupErrSome(key)))

(***************************************************************************)
(* translate.rs: impl TranslateSchema for schema::Type.                    *)
(* The outcome of a call is Ok(Some(ty)) ("ok"), Ok(None) ("none"),        *)
(* Err(report) ("err") or a panic ("panic"), together with the translator's*)
(* anon_missing set as the call leaves it.                                 *)
(***************************************************************************)
TyOk(ty, missing) == [tag |-> "ok", val |-> ty, anon_missing |-> missing]

\* Mutant of TyNone: the type String instead of nothing.
TyNone_string(missing) == [tag |-> "ok", val |-> "String", anon_missing |-> missing]

TyNone(missing) == [tag |-> "none", val |-> "", anon_missing |-> missing]
\* Mutant of TyErr: the placeholder type instead of an error.
TyErr_placeholder(msg, missing) ==
    [tag |-> "ok", val |-> "todo!()", anon_missing |-> missing]

TyErr(msg, missing) == [tag |-> "err", val |-> msg, anon_missing |-> missing]
TyPanic(msg, missing) == [tag |-> "panic", val |-> msg, anon_missing |-> missing]

translate_base(name, missing) ==
    CASE name = "Uri" -> TyOk(TypeRef_new("crate::Uri"), missing)
      [] name = "DocumentUri" -> TyOk(TypeRef_new("crate::DocumentUri"), missing)
      [] name = "Integer" -> TyOk(TypeRef_new("i64"), missing)
      [] name = "Uinteger" -> TyOk(TypeRef_new("u32"), missing)
      [] name = "Decimal" -> TyOk(TypeRef_new("f32"), missing)
      [] name = "RegExp" ->
            TyPanic("present in the spec but not in the metaModel", missing)
      [] name = "String" -> TyOk(TypeRef_new("String"), missing)
      [] name = "Boolean" -> TyOk(TypeRef_new("bool"), missing)
      [] name = "Null" -> TyPanic("not yet implemented", missing)

\* Mutant of is_empty_literal: every Literal arm, with properties or not.
is_any_literal(item) == item.kind = "literal"

\* matches!(item, Literal { value: StructureLiteral { properties, .. } }
\*          if properties.is_empty())
is_empty_literal(item) ==
    item.kind = "literal" /\ item.value.properties = <<>>

\* Mutant of retain_items: nothing is dropped.
retain_items_all(arms) == arms

\* items.retain(|item| !matches!(...))
retain_items(arms) == SelectSeq(arms, LAMBDA item : ~is_empty_literal(item))

\* Mutants of is_optional: the Null arm looked for in first place; any
\* two-arm union taken as optional.
is_optional_null_first(arms) == Len(arms) = 2 /\ arms[1] = Base("Null")
is_optional_any_pair(arms) == Len(arms) = 2

\* if let [ty, Type::Base { name: BaseType::Null }] = items.as_slice()
is_optional(arms) == Len(arms) = 2 /\ arms[2] = Base("Null")

\* Mutant of map_generic: the generic type of no argument when the inner
\* type has no translation.
map_generic_of_none(name, inner) ==
    IF inner.tag \notin {"ok", "none"} THEN inner
    ELSE TyOk(TypeRef_new_generics(name, IF inner.tag = "ok" THEN <<inner.val>>
                                         ELSE <<>>),
              inner.anon_missing)

\* .map(|ty| TypeRef::new_generics(name, [ty])) on a translated type.
map_generic(name, inner) ==
    IF inner.tag # "ok" THEN inner
    ELSE TyOk(TypeRef_new_generics(name, <<inner.val>>), inner.anon_missing)

\* Mutant of anon_outcome: a missing mapping is a hard error too.
anon_outcome_strict(found, missing) ==
    CASE found.tag = "Ok" -> TyOk(found.val, missing)
      [] found.tag = "panic" -> TyPanic(found.val, missing)
      [] OTHER -> TyErr("invalid collection of items for an enum", missing)

\* What the union arm makes of lookup_anon's result.
anon_outcome(found, missing) ==
    CASE found.tag = "Ok" -> TyOk(found.val, missing)
      [] found.tag = "ErrNone" ->
            TyErr("invalid collection of items for an enum", missing)
      [] found.tag = "ErrSome" ->
            TyOk(TypeRef_new("todo!()"), missing \cup {found.val})
      [] found.tag = "panic" -> TyPanic(found.val, missing)

RECURSIVE TypeTranslate(_, _, _)
TypeTranslate(ty, anon_mappings, missing) ==
    CASE ty.kind = "base" -> translate_base(ty.name, missing)
      [] ty.kind = "array" ->
            With(TypeTranslate(ty.element, anon_mappings, missing),
                 LAMBDA element : map_generic("Vec", element))
      [] ty.kind = "reference" -> TyOk(TypeRef_new(ty.name), missing)
      [] ty.kind = "map" ->
            With(TypeTranslate(ty.key, anon_mappings, missing), LAMBDA key :
            IF key.tag # "ok" THEN key
            ELSE With(TypeTranslate(ty.value, anon_mappings, key.anon_missing),
                      LAMBDA value :
                 IF value.tag # "ok" THEN value
                 ELSE TyOk(TypeRef_new_generics("std::collections::HashMap",
                                                <<key.val, value.val>>),
                           value.anon_missing)))
      [] ty.kind = "or" ->
            With(retain_items(ty.items), LAMBDA arms :
            IF Len(arms) = 1
            THEN TypeTranslate(arms[1], anon_mappings, missing)
            ELSE IF is_optional(arms)
            THEN With(TypeTranslate(arms[1], anon_mappings, missing),
                      LAMBDA inner : map_generic("Option", inner))
            ELSE With(lookup_anon(anon_mappings, arms),
                      LAMBDA found : anon_outcome(found, missing)))
      [] ty.kind = "tuple" -> TyErr("translate tuples", missing)
      [] ty.kind = "literal" -> TyErr("translate literal type", missing)
      [] ty.kind = "stringLiteral" -> TyNone(missing)
      [] ty.kind = "integerLiteral" ->
            TyErr("translate string integer type", missing)
      [] ty.kind = "booleanLiteral" ->
            TyErr("translate string boolean type", missing)

(***************************************************************************)
(* target.rs: Version::parse.                                              *)
(***************************************************************************)
starts_with(s, prefix) ==
    Len(s) >= Len(prefix) /\ SubSeq(s, 1, Len(prefix)) = prefix

ends_with(s, suffix) ==
    Len(s) >= Len(suffix) /\ SubSeq(s, Len(s) - Len(suffix) + 1, Len(s)) = suffix

\* s.strip_prefix(prefix).unwrap_or(s)
strip_prefix_or(s, prefix) ==
    IF starts_with(s, prefix) THEN SubSeq(s, Len(prefix) + 1, Len(s)) ELSE s

\* s.strip_suffix(suffix).unwrap_or(s)
strip_suffix_or(s, suffix) ==
    IF ends_with(s, suffix) THEN SubSeq(s, 1, Len(s) - Len(suffix)) ELSE s

\* s.split_once(' ').map(|(version, details)| version).unwrap_or(s)
before_first_space(s) ==
    LET spaces == {i \in 1..Len(s) : SubSeq(s, i, i) = " "}
    IN  IF spaces = {} THEN s
        ELSE SubSeq(s, 1, (CHOOSE i \in spaces : \A j \in spaces : i <= j) - 1)

version_normalise(s) ==
    strip_suffix_or(before_first_space(strip_prefix_or(s, "version ")), ".")

VerOk(v) == [tag |-> "ok", val |-> v]
VerErr(version) == [tag |-> "err", val |-> "invalid version " \o version]

Version_parse(s) ==
    IF s = None THEN VerOk("Unknown")
    ELSE With(version_normalise(s[1]), LAMBDA v :
             CASE v = "3.2.0" -> VerOk("V3_2_0")
               [] v = "3.6.0" -> VerOk("V3_6_0")
               [] v = "3.8.0" -> VerOk("V3_8_0")
               [] v = "3.10.0" -> VerOk("V3_10_0")
               [] v = "3.12.0" -> VerOk("V3_12_0")
               [] v = "3.13.0" -> VerOk("V3_13_0")
               [] v = "3.14.0" -> VerOk("V3_14_0")
               [] v = "3.15.0" -> VerOk("V3_15_0")
               [] v = "3.16.0" -> VerOk("V3_16_0")
               [] v = "3.16" -> VerOk("V3_17_0")
               [] v = "3.17.0" -> VerOk("V3_17_0")
               [] v = "3.17" -> VerOk("V3_17_0")
               [] v = "3.18.0" -> VerOk("V3_18_0")
               [] OTHER -> VerErr(v))

(***************************************************************************)
(* schema.rs: Structure; translate.rs: impl TranslateSchema for Structure. *)
(***************************************************************************)
Structure(name, properties, extends, mixins, documentation, since, deprecated) ==
    [name |-> name, properties |-> properties, extends |-> extends,
     mixins |-> mixins, documentation |-> documentation, since |-> since,
     since_tags |-> None, proposed |-> None, deprecated |-> deprecated]

StOk(struct_, missing) == [tag |-> "ok", val |-> struct_, anon_missing |-> missing]
StErr(msg, missing) == [tag |-> "err", val |-> msg, anon_missing |-> missing]
StPanic(msg, missing) == [tag |-> "panic", val |-> msg, anon_missing |-> missing]

\* wrap_err_with(|| format!(...)): the context, then the cause.
wrap_err(context, cause) == context \o ": " \o cause

StructFields(name, ty, doc, since, deprecated) ==
    [name |-> name, ty |-> ty, doc |-> doc, since |-> since,
     deprecated |-> deprecated]

\* The loop over the properties, from property i on, with the fields pushed
\* so far.
RECURSIVE translate_properties(_, _, _, _, _)
translate_properties(properties, i, fields, anon_mappings, missing) ==
    IF i > Len(properties) THEN StOk(fields, missing)
    ELSE With(properties[i], LAMBDA property :
         With(TypeTranslate(property.type_, anon_mappings, missing), LAMBDA ty :
         CASE ty.tag = "err" ->
                StErr(wrap_err("while translating property: " \o property.name,
                               ty.val),
                      ty.anon_missing)
           [] ty.tag = "panic" -> StPanic(ty.val, ty.anon_missing)
           [] ty.tag = "none" ->
                translate_properties(properties, i + 1, fields,
                                     anon_mappings, ty.anon_missing)
           [] ty.tag = "ok" ->
                With(Version_parse(property.since), LAMBDA since :
                IF since.tag = "err"
                THEN StErr(since.val, ty.anon_missing)
                ELSE With(Append(fields,
                                 StructFields(property.name, ty.val,
                                              property.documentation,
                                              since.val, property.deprecated)),
                          LAMBDA pushed :
                     translate_properties(properties, i + 1, pushed,
                                          anon_mappings, ty.anon_missing)))))

\* Mutant of chain: the mixins before the extended types.
chain_mixins_first(extends, mixins) == mixins \o extends

\* extends.iter().chain(mixins): the extended types, then the mixins.
chain(extends, mixins) == extends \o mixins

StructureTranslate(structure, anon_mappings, missing) ==
    With(into_reference_all(chain(structure.extends, structure.mixins)),
         LAMBDA extends :
    IF extends.tag # "some" THEN StPanic(RefPanic.val, missing)
    ELSE With(translate_properties(structure.properties, 1, <<>>,
                                   anon_mappings, missing),
              LAMBDA fields :
         IF fields.tag # "ok" THEN fields
         ELSE With(Version_parse(structure.since), LAMBDA since :
              IF since.tag = "err"
              THEN StErr(since.val, fields.anon_missing)
              ELSE StOk([name |-> structure.name,
                         extends |-> extends.val,
                         fields |-> fields.val,
                         doc |-> structure.documentation,
                         since |-> since.val,
                         deprecated |-> structure.deprecated],
                        fields.anon_missing))))

(***************************************************************************)
(* schema.rs: Enumeration.                                                 *)
(***************************************************************************)
ValueString(val) == [kind |-> "string", val |-> val]
ValueNumber(val) == [kind |-> "number", val |-> val]

EnumerationEntry(name, value, documentation, since) ==
    [name |-> name, value |-> value, documentation |-> documentation,
     since |-> since, proposed |-> FALSE]

Enumeration(name, kind, values, documentation, since, deprecated) ==
    [name |-> name, type_ |-> [kind |-> "base", name |-> kind],
     values |-> values, supports_custom_values |-> FALSE,
     documentation |-> documentation, since |-> since, proposed |-> FALSE,
     deprecated |-> deprecated]

(***************************************************************************)
(* translate.rs:66-70, 101-105: the fingerprint of an entity,              *)
(*     format!("{:08x}", { entity.hash(&mut Hasher32::default()); finish })*)
(* The derived Hash impls of schema.rs feed the hasher a byte stream and   *)
(* fasthash::xx::Hasher32 is XXH32 with seed 0 over that stream.           *)
(*                                                                         *)
(* A byte is a number in 0..255, a 32-bit word is <<high half, low half>>  *)
(* with 16-bit halves, so that no intermediate value leaves 31 bits.       *)
(***************************************************************************)
\* Printable ASCII without the double quote, the backslash and the
\* backquote, by code.
Ascii32 == " !"
Ascii35 == "#$%&'()*+,-./0123456789:;<=>?@ABCDEFGHIJKLMNOPQRSTUVWXYZ["
Ascii93 == "]^_"
Ascii97 == "abcdefghijklmnopqrstuvwxyz{|}~"

IndexOf(str, c) ==
    LET at == {i \in 1..Len(str) : SubSeq(str, i, i) = c}
    IN  IF at = {} THEN 0 ELSE CHOOSE i \in at : TRUE

\* The UTF-8 code of a one-character ASCII string.
Ord(c) ==
    IF IndexOf(Ascii32, c) > 0 THEN 31 + IndexOf(Ascii32, c)
    ELSE IF IndexOf(Ascii35, c) > 0 THEN 34 + IndexOf(Ascii35, c)
    ELSE IF IndexOf(Ascii93, c) > 0 THEN 92 + IndexOf(Ascii93, c)
    ELSE 96 + IndexOf(Ascii97, c)

StrBytes(str) == [i \in 1..Len(str) |-> Ord(SubSeq(str, i, i))]

RECURSIVE Flatten(_)
Flatten(seqs) ==
    IF seqs = <<>> THEN <<>>
    ELSE With(Tail(seqs), LAMBDA rest : Head(seqs) \o Flatten(rest))

\* Hasher::write_usize / write_isize / write_i64 on a 64-bit little-endian
\* target, for 0 <= n < 2^16.
hash_usize(n) == <<n % 256, n \div 256, 0, 0, 0, 0, 0, 0>>

\* impl Hash for str: the bytes, then 0xff.
hash_str(str) == StrBytes(str) \o <<255>>

hash_bool(b) == IF b THEN <<1>> ELSE <<0>>

\* derive(Hash) on Option: the discriminant, then the payload (given hashed).
hash_option(hashed) ==
    With(hashed, LAMBDA h :
         IF h = None THEN hash_usize(0) ELSE hash_usize(1) \o h[1])

\* impl Hash for [T]: the length, then the elements (given hashed).
hash_vec(hashed) ==
    With(hashed, LAMBDA h : hash_usize(Len(h)) \o Flatten(h))

OptMap(o, F(_)) == IF o = None THEN None ELSE Some(F(o[1]))

hash_opt_str(o) == hash_option(OptMap(o, hash_str))
hash_opt_bool(o) == hash_option(OptMap(o, hash_bool))
hash_str_vec(v) == hash_vec([i \in 1..Len(v) |-> hash_str(v[i])])
hash_opt_str_vec(o) == hash_option(OptMap(o, hash_str_vec))

\* The discriminants of schema::Type and schema::BaseType.
type_discriminant(kind) ==
    CASE kind = "base" -> 0
      [] kind = "reference" -> 1
      [] kind = "array" -> 2
      [] kind = "map" -> 3
      [] kind = "or" -> 4
      [] kind = "tuple" -> 5
      [] kind = "literal" -> 6
      [] kind = "stringLiteral" -> 7
      [] kind = "integerLiteral" -> 8
      [] kind = "booleanLiteral" -> 9

base_discriminant(name) ==
    CASE name = "Uri" -> 0
      [] name = "DocumentUri" -> 1
      [] name = "Integer" -> 2
      [] name = "Uinteger" -> 3
      [] name = "Decimal" -> 4
      [] name = "RegExp" -> 5
      [] name = "String" -> 6
      [] name = "Boolean" -> 7
      [] name = "Null" -> 8

RECURSIVE hash_type(_)
RECURSIVE hash_property(_)

hash_properties(properties) ==
    hash_vec([i \in 1..Len(properties) |-> hash_property(properties[i])])

hash_types(types) == hash_vec([i \in 1..Len(types) |-> hash_type(types[i])])

\* derive(Hash) on StructureLiteral.
hash_structure_literal(value) ==
    hash_properties(value.properties)
    \o hash_opt_str(value.documentation)
    \o hash_opt_str(value.since)
    \o hash_opt_str_vec(value.since_tags)
    \o hash_bool(value.proposed)
    \o hash_opt_str(value.deprecated)

\* derive(Hash) on Type: the discriminant, then the variant's fields.
hash_type(ty) ==
    hash_usize(type_discriminant(ty.kind))
    \o (CASE ty.kind = "base" -> hash_usize(base_discriminant(ty.name))
          [] ty.kind = "reference" -> hash_str(ty.name)
          [] ty.kind = "array" -> hash_type(ty.element)
          [] ty.kind = "map" -> hash_type(ty.key) \o hash_type(ty.value)
          [] ty.kind = "or" -> hash_types(ty.items)
          [] ty.kind = "tuple" -> hash_types(ty.items)
          [] ty.kind = "literal" -> hash_structure_literal(ty.value)
          [] ty.kind = "stringLiteral" -> hash_str(ty.value)
          [] ty.kind = "integerLiteral" -> hash_usize(ty.value)
          [] ty.kind = "booleanLiteral" -> hash_bool(ty.value))

\* derive(Hash) on Property.
hash_property(property) ==
    hash_str(property.name)
    \o hash_type(property.type_)
    \o hash_opt_str(property.documentation)
    \o hash_opt_bool(property.optional)
    \o hash_opt_str(property.since)
    \o hash_opt_str_vec(property.since_tags)
    \o hash_opt_bool(property.proposed)
    \o hash_opt_str(property.deprecated)

\* derive(Hash) on Structure.
hash_structure(structure) ==
    hash_str(structure.name)
    \o hash_properties(structure.properties)
    \o hash_types(structure.extends)
    \o hash_types(structure.mixins)
    \o hash_opt_str(structure.documentation)
    \o hash_opt_str(structure.since)
    \o hash_opt_str_vec(structure.since_tags)
    \o hash_opt_bool(structure.proposed)
    \o hash_opt_str(structure.deprecated)

enum_kind_discriminant(kind) ==
    CASE kind = "string" -> 0
      [] kind = "integer" -> 1
      [] kind = "uinteger" -> 2

\* serde_json::Value: Number (discriminant 2, a u64 here) or String
\* (discriminant 3).
hash_value(value) ==
    IF value.kind = "number" THEN hash_usize(2) \o hash_usize(value.val)
    ELSE hash_usize(3) \o hash_str(value.val)

\* derive(Hash) on EnumerationEntry.
hash_enumeration_entry(entry) ==
    hash_str(entry.name)
    \o hash_value(entry.value)
    \o hash_opt_str(entry.documentation)
    \o hash_opt_str(entry.since)
    \o hash_bool(entry.proposed)

\* derive(Hash) on Enumeration; EnumerationType has one variant.
hash_enumeration(enumeration) ==
    hash_str(enumeration.name)
    \o hash_usize(enum_kind_discriminant(enumeration.type_.name))
    \o hash_vec([i \in 1..Len(enumeration.values) |->
                    hash_enumeration_entry(enumeration.values[i])])
    \o hash_bool(enumeration.supports_custom_values)
    \o hash_opt_str(enumeration.documentation)
    \o hash_opt_str(enumeration.since)
    \o hash_bool(enumeration.proposed)
    \o hash_opt_str(enumeration.deprecated)

\* 32-bit arithmetic on <<high, low>> words.
Add32(a, b) ==
    LET lo == a[2] + b[2]
    IN  <<(a[1] + b[1] + (lo \div 65536)) % 65536, lo % 65536>>

\* The low 16 bits of the product of two 16-bit numbers.
MulLow16(x, y) ==
    ((x * (y % 256)) + (((x * (y \div 256)) % 256) * 256)) % 65536

\* The 32-bit product of two 16-bit numbers.
Mul16(x, y) ==
    LET x0 == x % 256
        x1 == x \div 256
        y0 == y % 256
        y1 == y \div 256
        mid == x0 * y1 + x1 * y0
        low == x0 * y0 + ((mid % 256) * 256)
    IN  <<(x1 * y1) + (mid \div 256) + (low \div 65536), low % 65536>>

Mul32(a, b) ==
    LET p == Mul16(a[2], b[2])
    IN  <<(p[1] + MulLow16(a[2], b[1]) + MulLow16(a[1], b[2])) % 65536, p[2]>>

RotlSmall(a, r) ==
    <<((a[1] * 2^r) % 65536) + (a[2] \div 2^(16 - r)),
      ((a[2] * 2^r) % 65536) + (a[1] \div 2^(16 - r))>>

Rotl32(a, r) ==
    IF r < 16 THEN RotlSmall(a, r) ELSE RotlSmall(<<a[2], a[1]>>, r - 16)

Shr32(a, r) ==
    IF r = 16 THEN <<0, a[1]>>
    ELSE <<a[1] \div 2^r, (a[2] \div 2^r) + ((a[1] % 2^r) * 2^(16 - r))>>

RECURSIVE Xor16(_, _)
Xor16(x, y) ==
    IF x = 0 THEN y
    ELSE IF y = 0 THEN x
    ELSE ((x + y) % 2) + 2 * Xor16(x \div 2, y \div 2)

Xor32(a, b) == <<Xor16(a[1], b[1]), Xor16(a[2], b[2])>>

\* 0 - a (wrapping).
Neg32(a) == With(Xor32(a, <<65535, 65535>>), LAMBDA x : Add32(x, <<0, 1>>))

\* XXH32.
PRIME32_1 == <<40503, 31153>>
PRIME32_2 == <<34283, 51831>>
PRIME32_3 == <<49842, 44605>>
PRIME32_4 == <<10196, 60207>>
PRIME32_5 == <<5718, 26545>>

Read32LE(bytes, p) ==
    <<bytes[p + 2] + 256 * bytes[p + 3], bytes[p] + 256 * bytes[p + 1]>>

xxh32_round(acc, lane) ==
    With(Mul32(lane, PRIME32_2), LAMBDA m :
    With(Add32(acc, m), LAMBDA sum :
    With(Rotl32(sum, 13), LAMBDA rot : Mul32(rot, PRIME32_1))))

\* The 16-byte stripes from position p on; v holds the four accumulators.
RECURSIVE xxh32_stripes(_, _, _)
xxh32_stripes(bytes, p, v) ==
    IF p + 15 > Len(bytes) THEN <<p, v>>
    ELSE With(<<xxh32_round(v[1], Read32LE(bytes, p)),
                xxh32_round(v[2], Read32LE(bytes, p + 4)),
                xxh32_round(v[3], Read32LE(bytes, p + 8)),
                xxh32_round(v[4], Read32LE(bytes, p + 12))>>,
              LAMBDA next :
              With(p + 16, LAMBDA q : xxh32_stripes(bytes, q, next)))

\* One whole 32-bit lane, one single byte, of what the stripes leave.
xxh32_lane(h, lane) ==
    With(Mul32(lane, PRIME32_3), LAMBDA m :
    With(Add32(h, m), LAMBDA sum :
    With(Rotl32(sum, 17), LAMBDA rot : Mul32(rot, PRIME32_4))))

xxh32_byte(h, byte) ==
    With(Mul32(<<0, byte>>, PRIME32_5), LAMBDA m :
    With(Add32(h, m), LAMBDA sum :
    With(Rotl32(sum, 11), LAMBDA rot : Mul32(rot, PRIME32_1))))

\* The bytes left after the stripes: whole 32-bit lanes, then single bytes.
RECURSIVE xxh32_tail(_, _, _)
xxh32_tail(bytes, p, h) ==
    IF p + 3 <= Len(bytes)
    THEN With(xxh32_lane(h, Read32LE(bytes, p)), LAMBDA next :
         With(p + 4, LAMBDA q : xxh32_tail(bytes, q, next)))
    ELSE IF p <= Len(bytes)
    THEN With(xxh32_byte(h, bytes[p]), LAMBDA next :
         With(p + 1, LAMBDA q : xxh32_tail(bytes, q, next)))
    ELSE h

\* h ^= h >> r; h *= prime
xxh32_mix(h, r, prime) ==
    With(Shr32(h, r), LAMBDA shifted :
    With(Xor32(h, shifted), LAMBDA mixed : Mul32(mixed, prime)))

xxh32_avalanche(h) ==
    With(xxh32_mix(h, 15, PRIME32_2), LAMBDA h1 :
    With(xxh32_mix(h1, 13, PRIME32_3), LAMBDA h2 :
    With(Shr32(h2, 16), LAMBDA shifted : Xor32(h2, shifted))))

\* The accumulators merged: rotl(v1, 1) + rotl(v2, 7) + rotl(v3, 12)
\* + rotl(v4, 18).
xxh32_merge(v) ==
    With(Add32(Rotl32(v[1], 1), Rotl32(v[2], 7)), LAMBDA low :
    With(Add32(Rotl32(v[3], 12), Rotl32(v[4], 18)), LAMBDA high :
         Add32(low, high)))

xxh32_init ==
    <<Add32(PRIME32_1, PRIME32_2), PRIME32_2, <<0, 0>>, Neg32(PRIME32_1)>>

\* XXH32 of the bytes, seed 0.
xxh32(bytes) ==
    With(IF Len(bytes) >= 16
         THEN With(xxh32_stripes(bytes, 1, xxh32_init), LAMBDA s :
                   <<s[1], xxh32_merge(s[2])>>)
         ELSE <<1, PRIME32_5>>,
         LAMBDA start :
    With(Add32(start[2], <<0, Len(bytes)>>), LAMBDA h :
    With(xxh32_tail(bytes, start[1], h), LAMBDA last :
         xxh32_avalanche(last))))

HexDigits == "0123456789abcdef"
HexDigit(d) == SubSeq(HexDigits, d + 1, d + 1)
Hex4(x) ==
    HexDigit(x \div 4096) \o HexDigit((x \div 256) % 16)
    \o HexDigit((x \div 16) % 16) \o HexDigit(x % 16)

\* format!("{:08x}", hasher.finish())
Hex8(word) == Hex4(word[1]) \o Hex4(word[2])

structure_fingerprint(structure) ==
    With(hash_structure(structure), LAMBDA bytes :
    With(xxh32(bytes), LAMBDA word : Hex8(word)))

enumeration_fingerprint(enumeration) ==
    With(hash_enumeration(enumeration), LAMBDA bytes :
    With(xxh32(bytes), LAMBDA word : Hex8(word)))

(***************************************************************************)
(* translate.rs: impl TranslateSchema for schema::Enumeration.             *)
(***************************************************************************)
EnOk(enum_) == [tag |-> "ok", val |-> enum_]

\* Mutant of EnErr: an Enum without variants instead of the error.
EnErr_empty_enum(msg) ==
    [tag |-> "ok",
     val |-> [name |-> msg, variants |-> <<>>, doc |-> None,
              since |-> "Unknown", deprecated |-> None]]

EnErr(msg) == [tag |-> "err", val |-> msg]
EnPanic(msg) == [tag |-> "panic", val |-> msg]

EnumVariants(name, doc, since) == [name |-> name, doc |-> doc, since |-> since]

\* The loop over the entries, from entry i on, with the variants pushed so
\* far.
RECURSIVE translate_values(_, _, _)
translate_values(values, i, variants) ==
    IF i > Len(values) THEN EnOk(variants)
    ELSE With(Version_parse(values[i].since), LAMBDA since :
         IF since.tag = "err" THEN EnErr(since.val)
         ELSE With(Append(variants,
                          EnumVariants(values[i].name, values[i].documentation,
                                       since.val)),
                   LAMBDA pushed : translate_values(values, i + 1, pushed)))

EnumerationTranslate(enumeration) ==
    CASE enumeration.type_.name = "integer" -> EnErr("translate int enums")
      [] enumeration.type_.name = "uinteger" -> EnErr("translate uint enums")
      [] enumeration.type_.name = "string" ->
            With(translate_values(enumeration.values, 1, <<>>),
                 LAMBDA variants :
            IF variants.tag # "ok" THEN variants
            ELSE With(Version_parse(enumeration.since), LAMBDA since :
                 IF since.tag = "err"
                 THEN EnPanic("invalid version " \o since.val)
                 ELSE EnOk([name |-> enumeration.name,
                            variants |-> variants.val,
                            doc |-> enumeration.documentation,
                            since |-> since.val,
                            deprecated |-> enumeration.deprecated])))

(***************************************************************************)
(* schema.rs: MetaModel (the fields the translator reads); config.rs:      *)
(* Config and CodegenOption; target.rs: Item.                              *)
(***************************************************************************)
MetaModel(structures, enumerations) ==
    [structures |-> structures, enumerations |-> enumerations]

Generate(b) == [tag |-> "Generate", val |-> b]
Checksum(cksum) == [tag |-> "Checksum", val |-> cksum]

ItemStruct(struct_) == [item |-> "Struct", val |-> struct_]
ItemEnum(enum_) == [item |-> "Enum", val |-> enum_]

\* Mutant of map_remove: the entry is looked up and left in the map.
map_remove_nothing(map, key) == map

\* BTreeMap::remove: the map without the key.
map_remove(map, key) == [k \in DOMAIN map \ {key} |-> map[k]]

\* BTreeMap::get / the value remove returns.
map_get(map, key) == IF key \in DOMAIN map THEN Some(map[key]) ELSE None

(***************************************************************************)
(* State.                                                                  *)
(*   config      the caller's Config (translate_schema's argument)         *)
(*   t           the Translator                                            *)
(*   input       the argument list of the function under study             *)
(*   call, ret   the function applied to it and what it returned           *)
(*   meta_model  the MetaModel translate_schema is run on                  *)
(*   items       MetaModel::translate's item list                          *)
(*   stderr      what the pass has written to standard error               *)
(*   pc, pos     the loop MetaModel::translate is in and its position; pc  *)
(*               is "done" once the reports are written and todo!() is     *)
(*               reached, "aborted" after an Err or a panic inside a loop  *)
(*   result      how the run ended                                         *)
(*   run, first  which run on the config this is, what the first one left  *)
(***************************************************************************)
VARIABLES config, t, input, call, ret,
          meta_model, items, stderr, pc, pos, result, run, first

fnvars == <<input, call, ret>>

passvars == <<meta_model, items, stderr, pc, pos, result, run, first>>

vars == <<config, t, input, call, ret,
          meta_model, items, stderr, pc, pos, result, run, first>>

Config(anon_mappings, structs, enums) ==
    [anon_mappings |-> anon_mappings, structs |-> structs, enums |-> enums]

\* translate_schema: the Translator it builds around a clone of the config.
Translator(cfg) ==
    [config |-> cfg, structs_missing |-> {}, enums_missing |-> {},
     anon_missing |-> {}]

EmptyMap == [k \in {} |-> ""]

\* How a run of translate_schema stands: under way, returned Err, panicked.
Running == [tag |-> "running", val |-> ""]
RunErr(msg) == [tag |-> "err", val |-> msg]
RunPanic(msg) == [tag |-> "panic", val |-> msg]

(***************************************************************************)
(* Bounds and input universes.                                             *)
(***************************************************************************)
MaxArms == 3

EmptyLiteral == Literal(StructureLiteral(<<>>))
SomeLiteral ==
    Literal(StructureLiteral(
        <<Property("k", Base("String"), None, None, None, None)>>))

\* The types used as union arms, tuple elements and property types.
ArmTypes ==
    {Base("Null"), Base("String"), Reference("A"), Reference("B"),
     EmptyLiteral, SomeLiteral, StringLiteral("s"),
     Array(Reference("A")), Array(StringLiteral("s")),
     Tuple(<<Reference("A")>>), Tuple(<<StringLiteral("s")>>),
     Or(<<Reference("A"), Reference("B")>>)}

\* The types a function of one type is applied to, besides the arms.
SingleTypes ==
    {Base(b) : b \in BaseType}
    \cup {Array(Base(b)) : b \in BaseType}
    \cup {IntegerLiteral(1), BooleanLiteral(TRUE),
          Map(Base("String"), Reference("A")),
          Map(Base("String"), StringLiteral("s")),
          Map(StringLiteral("s"), Tuple(<<>>)),
          Map(Tuple(<<>>), StringLiteral("s")),
          Map(Or(<<Reference("A"), Reference("B")>>), Tuple(<<>>)),
          Array(Array(Reference("A"))),
          Or(<<StringLiteral("s"), Base("Null")>>),
          Tuple(<<Reference("A"), Base("Integer")>>),
          Tuple(<<Tuple(<<Base("Decimal")>>)>>),
          Or(<<>>)}

SeqsUpTo(S, n) == UNION {[1..k -> S] : k \in 0..n}

Inputs == SeqsUpTo(ArmTypes, MaxArms) \cup {<<ty>> : ty \in SingleTypes}

AnonMappings ==
    {EmptyMap,
     [k \in {"A|B"} |-> "AOrB"],
     [k \in {"B|A"} |-> "BOrA"],
     [k \in {"A|B", "B|A", "A|B|Vec<A>"} |-> "Any"],
     [k \in {""} |-> "Unit"]}

(***************************************************************************)
(* SpecFn: each function of the translator applied to one argument.        *)
(***************************************************************************)
InitFn ==
    /\ config \in {Config(m, EmptyMap, EmptyMap) : m \in AnonMappings}
    /\ t = Translator(config)
    /\ input \in Inputs
    /\ call = "none"
    /\ ret = <<>>
    /\ meta_model = MetaModel(<<>>, <<>>)
    /\ items = <<>>
    /\ stderr = <<>>
    /\ pc = "function"
    /\ pos = 0
    /\ result = Running
    /\ run = 0
    /\ first = <<>>

\* Type::translate on the union of the input arms.
TranslateOr ==
    /\ call = "none"
    /\ LET r == TypeTranslate(Or(input), t.config.anon_mappings, t.anon_missing)
       IN  /\ ret' = r
           /\ t' = [t EXCEPT !.anon_missing = r.anon_missing]
    /\ call' = "translate_or"
    /\ UNCHANGED <<config, input>>
    /\ UNCHANGED passvars

\* Type::translate on a single type.
TranslateType ==
    /\ call = "none"
    /\ Len(input) = 1
    /\ LET r == TypeTranslate(input[1], t.config.anon_mappings, t.anon_missing)
       IN  /\ ret' = r
           /\ t' = [t EXCEPT !.anon_missing = r.anon_missing]
    /\ call' = "translate_type"
    /\ UNCHANGED <<config, input>>
    /\ UNCHANGED passvars

\* Config::lookup_anon on the input arms.
LookupAnon ==
    /\ call = "none"
    /\ ret' = lookup_anon(t.config.anon_mappings, input)
    /\ call' = "lookup_anon"
    /\ UNCHANGED <<config, t, input>>
    /\ UNCHANGED passvars

\* Type::into_reference on a single type.
IntoReference ==
    /\ call = "none"
    /\ Len(input) = 1
    /\ ret' = into_reference(input[1])
    /\ call' = "into_reference"
    /\ UNCHANGED <<config, t, input>>
    /\ UNCHANGED passvars

\* The structure whose properties have the input types, in order.
StructureOf(types) ==
    Structure("S",
              [i \in 1..Len(types) |->
                  Property(<<"p1", "p2", "p3", "p4">>[i], types[i],
                           None, None, None, None)],
              <<>>, <<>>, None, None, None)

\* Structure::translate on the structure of the input types.
TranslateStructure ==
    /\ call = "none"
    /\ LET r == StructureTranslate(StructureOf(input), t.config.anon_mappings,
                                   t.anon_missing)
       IN  /\ ret' = r
           /\ t' = [t EXCEPT !.anon_missing = r.anon_missing]
    /\ call' = "translate_structure"
    /\ UNCHANGED <<config, input>>
    /\ UNCHANGED passvars

\* A call of one of TypeRef's constructors, and the text it renders.
CallNew(name) == [ctor |-> "new", name |-> name, args |-> <<>>]
CallNewGenerics(name, generics) ==
    [ctor |-> "new_generics", name |-> name, args |-> generics]
CallNewTuple(elements) == [ctor |-> "new_tuple", name |-> "", args |-> elements]

rendered(c) ==
    CASE c.ctor = "new" -> TypeRef_new(c.name)
      [] c.ctor = "new_generics" -> TypeRef_new_generics(c.name, c.args)
      [] c.ctor = "new_tuple" -> TypeRef_new_tuple(c.args)

\* The names a TypeRef is built from (schema reference names and configured
\* anon-mapping values are any strings), the TypeRefs passed as arguments,
\* and the constructor calls compared.
MaxGenerics == 2
TypeRefNames == {"A", "B", "Vec", "Vec<A>", "A,B", "(A)"}
TypeRefArgs == SeqsUpTo({TypeRef_new(n) : n \in {"A", "B", "A,B"}}, MaxGenerics)
TypeRefCalls ==
    {CallNew(n) : n \in TypeRefNames}
    \cup {CallNewGenerics(n, g) : n \in {"Vec", "A"}, g \in TypeRefArgs}
    \cup {CallNewTuple(g) : g \in TypeRefArgs}

\* Two calls of TypeRef's constructors, and as_str of each result.
BuildTypeRefs ==
    /\ call = "none"
    /\ input = <<>>
    /\ config.anon_mappings = EmptyMap
    /\ \E c1, c2 \in TypeRefCalls :
          /\ input' = <<c1, c2>>
          /\ ret' = <<rendered(c1), rendered(c2)>>
    /\ call' = "type_ref"
    /\ UNCHANGED <<config, t>>
    /\ UNCHANGED passvars

\* The arm lists whose keys are compared: a base type and references, one
\* named like the base type's text and one with the separator in its name.
KeyArms == {Base("String"), Reference("String"), Reference("A"), Reference("A|A")}
KeyArmLists == SeqsUpTo(KeyArms, MaxArms)

\* Config::lookup_anon on the arms of two unions, with no mapping
\* configured.
LookupAnonPair ==
    /\ call = "none"
    /\ input = <<>>
    /\ config.anon_mappings = EmptyMap
    /\ \E arms1, arms2 \in KeyArmLists :
          /\ input' = <<Or(arms1), Or(arms2)>>
          /\ ret' = [one |-> lookup_anon(config.anon_mappings, arms1),
                      other |-> lookup_anon(config.anon_mappings, arms2)]
    /\ call' = "lookup_anon_pair"
    /\ UNCHANGED <<config, t>>
    /\ UNCHANGED passvars

\* The `since` values Version::parse is applied to: absent, every release
\* in its long form, the short forms, decorated forms, and texts of no
\* release.
SinceTexts ==
    {None} \cup
    {Some(s) : s \in
        {"3.2.0", "3.6.0", "3.8.0", "3.10.0", "3.12.0", "3.13.0", "3.14.0",
         "3.15.0", "3.16.0", "3.17.0", "3.18.0",
         "3.16", "3.17", "3.18", "3.15",
         "version 3.16", "version 3.17.0", "3.16.", "3.17.0.",
         "3.16 - proposed", "3.17.0 - proposed", "version 3.18.0. (draft)",
         "3.17.0..", " 3.17.0", "version ", "version", "", "4.0", "3.17.1"}}

\* Version::parse on a `since` value.
ParseVersion ==
    /\ call = "none"
    /\ input = <<>>
    /\ config.anon_mappings = EmptyMap
    /\ \E s \in SinceTexts :
          /\ input' = s
          /\ ret' = Version_parse(s)
    /\ call' = "version_parse"
    /\ UNCHANGED <<config, t>>
    /\ UNCHANGED passvars

NextFn ==
    \/ BuildTypeRefs
    \/ LookupAnonPair
    \/ ParseVersion
    \/ TranslateOr
    \/ TranslateType
    \/ LookupAnon
    \/ IntoReference
    \/ TranslateStructure

SpecFn == InitFn /\ [][NextFn]_vars

(***************************************************************************)
(* Spec: translate_schema run on a meta-model, twice on the same Config.   *)
(***************************************************************************)
\* The most structures and enumerations, together, in a meta-model.
MaxEntities == 2

NoProperty(name, type_) == Property(name, type_, None, None, None, None)

\* A structure with a dropped discriminator, an optional reference and an
\* anonymous union, that extends Base and mixes in Mixin and Base.
FooStructure ==
    Structure("Foo",
              <<NoProperty("kind", StringLiteral("foo")),
                NoProperty("x", Or(<<Reference("Bar"), Base("Null")>>)),
                NoProperty("y", Or(<<Reference("A"), Reference("B")>>))>>,
              <<Reference("Base")>>, <<Reference("Mixin"), Reference("Base")>>,
              None, Some("3.17.0"), None)

\* The structure Foo with a property of a fatal shape.
FooTuple ==
    Structure("Foo", <<NoProperty("pair", Tuple(<<Base("Integer")>>))>>,
              <<>>, <<>>, None, None, None)

\* The structure Foo with a property whose translation panics, after one
\* that translates.
FooRegExp ==
    Structure("Foo",
              <<NoProperty("a", Reference("A")),
                NoProperty("r", Array(Base("RegExp")))>>,
              <<>>, <<>>, None, None, None)

\* The structure Bar with one documented property.
BarStructure(documentation) ==
    Structure("Bar",
              <<Property("d", Reference("A"), Some(documentation),
                         None, None, None)>>,
              <<>>, <<>>, None, None, None)

\* The structure Foo with a property that translates and then one of the
\* given type.
FooWith(type_) ==
    Structure("Foo",
              <<NoProperty("a", Reference("A")), NoProperty("f", type_)>>,
              <<>>, <<>>, None, None, None)

\* A union with an arm into_reference does not reduce.
IrreducibleUnion == Or(<<Reference("A"), StringLiteral("s")>>)

Structures ==
    {FooStructure, FooTuple, FooRegExp,
     FooWith(SomeLiteral), FooWith(IntegerLiteral(1)),
     FooWith(BooleanLiteral(TRUE)), FooWith(IrreducibleUnion),
     BarStructure("qyvdpdgb"), BarStructure("gjtbsqcq")}

KindEntries ==
    <<EnumerationEntry("Create", ValueString("create"), None, None),
      EnumerationEntry("Delete", ValueString("delete"), None, Some("3.16"))>>

KindEnumeration ==
    Enumeration("Kind", "string", KindEntries, None, Some("3.17.0"), None)

\* Kind as an enumeration of integers of the given kind.
NumberEnumeration(kind) ==
    Enumeration("Kind", kind,
                <<EnumerationEntry("One", ValueNumber(1), None, None)>>,
                None, None, None)

\* Kind, a string enumeration; Kind with a since no version matches; Kind
\* as an integer and as an unsigned integer enumeration.
Enumerations ==
    {KindEnumeration,
     Enumeration("Kind", "string", KindEntries, None, Some("4.0"), None),
     NumberEnumeration("integer"), NumberEnumeration("uinteger")}


\* The fingerprint of each structure and enumeration a meta-model can hold
\* (lines 66-70 and 101-105, computed once for each entity).
hash_of_structure ==
    [structure \in Structures |-> structure_fingerprint(structure)]

hash_of_enumeration ==
    [enumeration \in Enumerations |-> enumeration_fingerprint(enumeration)]

\* The checksums the configs pin: the fingerprints of FooStructure, of the
\* first Bar structure and of KindEnumeration.
FooChecksum == hash_of_structure[FooStructure]
BarChecksum == hash_of_structure[BarStructure("qyvdpdgb")]
KindChecksum == hash_of_enumeration[KindEnumeration]

StructOptions(name) ==
    IF name = "Foo" THEN {Generate(TRUE), Checksum(FooChecksum)}
    ELSE {Generate(FALSE), Checksum(BarChecksum)}

EnumOptions(name) == {Generate(TRUE), Checksum(KindChecksum)}

\* The maps from some of the keys to one of each key's options.
Maps(keys, Options(_)) ==
    UNION {{f \in [ks -> UNION {Options(k) : k \in keys}] :
               \A k \in ks : f[k] \in Options(k)} : ks \in SUBSET keys}

Configs ==
    {Config(m, structs, enums) :
        m \in {EmptyMap, [k \in {"A|B"} |-> "AOrB"]},
        structs \in Maps({"Foo", "Bar"}, StructOptions),
        enums \in Maps({"Kind"}, EnumOptions)}

MetaModels ==
    UNION {{MetaModel(structures, enumerations) :
               structures \in [1..n -> Structures],
               enumerations \in SeqsUpTo(Enumerations, MaxEntities - n)} :
           n \in 0..MaxEntities}

Init ==
    /\ config \in Configs
    /\ meta_model \in MetaModels
    /\ t = Translator(config)
    /\ items = <<>>
    /\ stderr = <<>>
    /\ pc = "structures"
    /\ pos = 1
    /\ result = Running
    /\ run = 1
    /\ first = <<>>
    /\ input = <<>>
    /\ call = "translate_schema"
    /\ ret = <<>>

\* translate_schema line 22, config.clone(): the translator removes entries
\* from its own copy, the caller's Config stays what it was.  The mutant has
\* the translator work on the caller's Config.
caller_config_shared(caller, translator) == translator

\* Mutant of caller_config: the removals from structs reach the caller.
caller_config_structs_shared(caller, translator) ==
    [caller EXCEPT !.structs = translator.structs]

caller_config(caller, translator) == caller

\* format!("{:?}", s) of a string without characters to escape.
debug_str(s) == "\"" \o s \o "\""

\* Lines 71-76 and 106-111: the warning, when the fingerprint is not the
\* configured checksum.  The mutant warns whatever the fingerprint.
checksum_warning_always(kind, name, cksum, hash) ==
    <<"Hash mismatch for " \o kind \o " " \o name \o ", expected "
          \o debug_str(cksum) \o ", got " \o debug_str(hash)>>

checksum_warning(kind, name, cksum, hash) ==
    IF hash # cksum
    THEN <<"Hash mismatch for " \o kind \o " " \o name \o ", expected "
               \o debug_str(cksum) \o ", got " \o debug_str(hash)>>
    ELSE <<>>

\* Lines 84-90, 119-125, 127-133: the block listing a missing set, when it
\* is not empty (the set stands for its lines, in BTreeSet order).
missing_block(header, missing) ==
    IF missing # {} THEN <<<<header, missing>>>> ELSE <<>>

\* The structure the first loop is at, and its config entry.
structure_at == meta_model.structures[pos]
struct_option == map_get(t.config.structs, structure_at.name)
InStructures == pc = "structures" /\ pos <= Len(meta_model.structures)

\* Lines 57-64: the structure's entry is Generate.
GenerateStructure ==
    /\ InStructures
    /\ struct_option # None
    /\ struct_option[1].tag = "Generate"
    /\ LET r == StructureTranslate(structure_at, t.config.anon_mappings,
                                   t.anon_missing)
       IN  /\ t' = [t EXCEPT !.config.structs = map_remove(@, structure_at.name),
                             !.anon_missing = r.anon_missing]
           /\ CASE r.tag = "ok" ->
                    /\ items' = Append(items, ItemStruct(r.val))
                    /\ pos' = pos + 1
                    /\ UNCHANGED <<pc, result>>
                [] r.tag = "err" ->
                    /\ result' = RunErr(wrap_err("translating structure "
                                                     \o structure_at.name, r.val))
                    /\ pc' = "aborted"
                    /\ UNCHANGED <<items, pos>>
                [] r.tag = "panic" ->
                    /\ result' = RunPanic(r.val)
                    /\ pc' = "aborted"
                    /\ UNCHANGED <<items, pos>>
    /\ config' = caller_config(config, t'.config)
    /\ UNCHANGED <<meta_model, stderr, run, first>>
    /\ UNCHANGED fnvars

\* Lines 65-77: the structure's entry is Checksum.
ChecksumStructure ==
    /\ InStructures
    /\ struct_option # None
    /\ struct_option[1].tag = "Checksum"
    /\ t' = [t EXCEPT !.config.structs = map_remove(@, structure_at.name)]
    /\ stderr' = stderr \o checksum_warning("structure", structure_at.name,
                                            struct_option[1].val,
                                            hash_of_structure[structure_at])
    /\ pos' = pos + 1
    /\ config' = caller_config(config, t'.config)
    /\ UNCHANGED <<meta_model, items, pc, result, run, first>>
    /\ UNCHANGED fnvars

\* Lines 78-81: the structure has no entry (left).
MissingStructure ==
    /\ InStructures
    /\ struct_option = None
    /\ t' = [t EXCEPT !.structs_missing = @ \cup {structure_at.name}]
    /\ pos' = pos + 1
    /\ config' = caller_config(config, t'.config)
    /\ UNCHANGED <<meta_model, items, stderr, pc, result, run, first>>
    /\ UNCHANGED fnvars

\* Lines 84-90: after the structures, the block of the missing ones.
ReportStructs ==
    /\ pc = "structures"
    /\ pos > Len(meta_model.structures)
    /\ stderr' = stderr \o missing_block("These structs are missing. Add them.",
                                         t.structs_missing)
    /\ pc' = "enumerations"
    /\ pos' = 1
    /\ UNCHANGED <<config, t, meta_model, items, result, run, first>>
    /\ UNCHANGED fnvars

\* The enumeration the second loop is at, and its config entry.
enumeration_at == meta_model.enumerations[pos]
enum_option == map_get(t.config.enums, enumeration_at.name)
InEnumerations == pc = "enumerations" /\ pos <= Len(meta_model.enumerations)

\* Lines 93-99: the enumeration's entry is Generate.
GenerateEnumeration ==
    /\ InEnumerations
    /\ enum_option # None
    /\ enum_option[1].tag = "Generate"
    /\ t' = [t EXCEPT !.config.enums = map_remove(@, enumeration_at.name)]
    /\ LET r == EnumerationTranslate(enumeration_at)
       IN  CASE r.tag = "ok" ->
                    /\ items' = Append(items, ItemEnum(r.val))
                    /\ pos' = pos + 1
                    /\ UNCHANGED <<pc, result>>
             [] r.tag = "err" ->
                    /\ result' = RunErr(wrap_err("translating enumeration "
                                                     \o enumeration_at.name, r.val))
                    /\ pc' = "aborted"
                    /\ UNCHANGED <<items, pos>>
             [] r.tag = "panic" ->
                    /\ result' = RunPanic(r.val)
                    /\ pc' = "aborted"
                    /\ UNCHANGED <<items, pos>>
    /\ config' = caller_config(config, t'.config)
    /\ UNCHANGED <<meta_model, stderr, run, first>>
    /\ UNCHANGED fnvars

\* Lines 100-112: the enumeration's entry is Checksum.
ChecksumEnumeration ==
    /\ InEnumerations
    /\ enum_option # None
    /\ enum_option[1].tag = "Checksum"
    /\ t' = [t EXCEPT !.config.enums = map_remove(@, enumeration_at.name)]
    /\ stderr' = stderr \o checksum_warning("enumeration", enumeration_at.name,
                                            enum_option[1].val,
                                            hash_of_enumeration[enumeration_at])
    /\ pos' = pos + 1
    /\ config' = caller_config(config, t'.config)
    /\ UNCHANGED <<meta_model, items, pc, result, run, first>>
    /\ UNCHANGED fnvars

\* Lines 113-116: the enumeration has no entry (left).
MissingEnumeration ==
    /\ InEnumerations
    /\ enum_option = None
    /\ t' = [t EXCEPT !.enums_missing = @ \cup {enumeration_at.name}]
    /\ pos' = pos + 1
    /\ config' = caller_config(config, t'.config)
    /\ UNCHANGED <<meta_model, items, stderr, pc, result, run, first>>
    /\ UNCHANGED fnvars

\* Lines 119-135: after the enumerations, the blocks of the missing
\* enumerations and of the missing anonymous unions, then todo!().
Finish ==
    /\ pc = "enumerations"
    /\ pos > Len(meta_model.enumerations)
    /\ stderr' = stderr
                 \o missing_block("These enums are missing. Add them.",
                                  t.enums_missing)
                 \o missing_block("These anon mappings are missing. Add them.",
                                  t.anon_missing)
    /\ result' = RunPanic("not yet implemented")
    /\ pc' = "done"
    /\ UNCHANGED <<config, t, meta_model, items, pos, run, first>>
    /\ UNCHANGED fnvars

\* What a run has left when it is over.
Outcome ==
    [result |-> result, items |-> items, stderr |-> stderr,
     structs_missing |-> t.structs_missing,
     enums_missing |-> t.enums_missing,
     anon_missing |-> t.anon_missing]

\* translate_schema called again, on the same MetaModel and Config.
CallAgain ==
    /\ pc \in {"done", "aborted"}
    /\ run = 1
    /\ first' = Outcome
    /\ run' = 2
    /\ t' = Translator(config)
    /\ items' = <<>>
    /\ stderr' = <<>>
    /\ pc' = "structures"
    /\ pos' = 1
    /\ result' = Running
    /\ UNCHANGED <<config, meta_model>>
    /\ UNCHANGED fnvars

Next ==
    \/ GenerateStructure
    \/ ChecksumStructure
    \/ MissingStructure
    \/ ReportStructs
    \/ GenerateEnumeration
    \/ ChecksumEnumeration
    \/ MissingEnumeration
    \/ Finish
    \/ CallAgain

Spec == Init /\ [][Next]_vars

(***************************************************************************)
(* src/uri.rs: Uri::from_file_path and Uri::to_file_path, as built for a   *)
(* target that is not Windows.  Paths and URI texts are sequences of       *)
(* bytes: a Unix path is any byte string, valid UTF-8 or not.              *)
(***************************************************************************)
\* NON_ALPHANUMERIC less - . _ ~ and /: the ASCII bytes that are encoded.
ASCII_SET ==
    LET alphanumeric == (48..57) \cup (65..90) \cup (97..122)
    IN  ((0..127) \ alphanumeric) \ {45, 46, 95, 126, 47}

\* percent_encoding::utf8_percent_encode: a byte of the set and every
\* non-ASCII byte becomes %XX with upper-case digits.
utf8_percent_encode(bytes) ==
    LET digit(n) == IF n < 10 THEN 48 + n ELSE 55 + n
    IN  Flatten([i \in 1..Len(bytes) |->
                    IF bytes[i] \in ASCII_SET \/ bytes[i] >= 128
                    THEN <<37, digit(bytes[i] \div 16), digit(bytes[i] % 16)>>
                    ELSE <<bytes[i]>>])

\* String::from_utf8_lossy (to_string_lossy, into_string_lossy): the valid
\* sequences as they are, each maximal invalid part replaced by U+FFFD.
\* utf8_width is the number of bytes of the sequence a byte starts, 0 for a
\* byte that starts none; utf8_continuation the bytes allowed at offset k
\* after the lead byte.
RECURSIVE from_utf8_lossy(_)
from_utf8_lossy(bytes) ==
    LET utf8_width(b) ==
            IF b < 128 THEN 1
            ELSE IF b \in 194..223 THEN 2
            ELSE IF b \in 224..239 THEN 3
            ELSE IF b \in 240..244 THEN 4
            ELSE 0
        utf8_continuation(lead, k) ==
            IF k = 1 /\ lead = 224 THEN 160..191
            ELSE IF k = 1 /\ lead = 237 THEN 128..159
            ELSE IF k = 1 /\ lead = 240 THEN 144..191
            ELSE IF k = 1 /\ lead = 244 THEN 128..143
            ELSE 128..191
    IN  IF bytes = <<>> THEN <<>>
        ELSE IF utf8_width(bytes[1]) = 0
        THEN <<239, 191, 189>> \o from_utf8_lossy(Tail(bytes))
        ELSE With(utf8_width(bytes[1]), LAMBDA width :
             With(CHOOSE k \in 0..3 :
                      /\ k < width /\ k < Len(bytes)
                      /\ \A j \in 1..k :
                            bytes[1 + j] \in utf8_continuation(bytes[1], j)
                      /\ \/ k + 1 = width
                         \/ k + 1 = Len(bytes)
                         \/ bytes[2 + k] \notin utf8_continuation(bytes[1], k + 1),
                  LAMBDA k :
             IF k + 1 = width
             THEN SubSeq(bytes, 1, width)
                      \o from_utf8_lossy(SubSeq(bytes, width + 1, Len(bytes)))
             ELSE <<239, 191, 189>>
                      \o from_utf8_lossy(SubSeq(bytes, k + 2, Len(bytes)))))

\* EStr::decode: every %XX becomes the byte XX.
RECURSIVE percent_decode(_)
percent_decode(text) ==
    LET value(b) == IF b \in 48..57 THEN b - 48
                    ELSE IF b \in 65..70 THEN b - 55 ELSE b - 87
    IN  IF text = <<>> THEN <<>>
        ELSE IF text[1] = 37
        THEN <<16 * value(text[2]) + value(text[3])>>
                 \o percent_decode(SubSeq(text, 4, Len(text)))
        ELSE <<text[1]>> \o percent_decode(Tail(text))

\* Uri::from_str(s).ok(), fluent_uri::Uri::parse (RFC 3986): the text is
\* refused when it holds a byte no URI may hold outside an IP literal or a
\* % not followed by two hex digits, or when it does not start with a
\* scheme; otherwise the authority is what follows scheme:// up to the next
\* / ? or #, and the path what follows up to the next ? or #.
Uri_from_str(text) ==
    LET IsHexDigit(b) == b \in 48..57 \/ b \in 65..70 \/ b \in 97..102
        first_of(from, stops) ==
            CHOOSE i \in from..(Len(text) + 1) :
                /\ i = Len(text) + 1 \/ text[i] \in stops
                /\ \A j \in from..(i - 1) : text[j] \notin stops
        allowed == {b \in 33..126 :
                       b \notin {34, 60, 62, 91, 92, 93, 94, 96, 123, 124, 125}}
        colon == first_of(1, {58})
        slashes == /\ Len(text) >= colon + 2
                   /\ text[colon + 1] = 47 /\ text[colon + 2] = 47
        path_from == IF slashes THEN first_of(colon + 3, {47, 63, 35})
                     ELSE colon + 1
        path_to == first_of(path_from, {63, 35})
    IN  IF \/ colon > Len(text) \/ colon = 1
           \/ ~(text[1] \in 65..90 \/ text[1] \in 97..122)
           \/ \E i \in 1..Len(text) :
                 \/ text[i] \notin allowed
                 \/ /\ text[i] = 37
                    /\ ~(i + 2 <= Len(text) /\ IsHexDigit(text[i + 1])
                                            /\ IsHexDigit(text[i + 2]))
        THEN None
        ELSE Some([text |-> text,
                   authority |-> IF slashes
                                 THEN Some(SubSeq(text, colon + 3, path_from - 1))
                                 ELSE None,
                   path |-> SubSeq(text, path_from, path_to - 1)])

\* to_file_path without the test for an empty path.
to_file_path_unchecked(uri) ==
    Some(from_utf8_lossy(percent_decode(uri.path)))

\* Lines 174-207, cfg!(windows) false: None for an empty decoded path, the
\* decoded path otherwise.
to_file_path(uri) ==
    With(from_utf8_lossy(percent_decode(uri.path)), LAMBDA path_str :
         IF path_str = <<>> THEN None ELSE Some(path_str))

\* Path::is_absolute on Unix.
is_absolute(path) == path # <<>> /\ path[1] = 47

\* Lines 212-248, cfg(not(windows)), for an absolute path (a relative one
\* goes through the file system first).
from_file_path(path) ==
    Uri_from_str(StrBytes("file://")
                     \o utf8_percent_encode(from_utf8_lossy(path)))

\* The bytes paths are made of: / a space % [ and the bytes 0xD1 0x84 (a
\* two-byte UTF-8 sequence in this order) and 0xFF (in no UTF-8 text).
MaxPathLen == 3
PathBytes == {47, 97, 32, 37, 91, 209, 132, 255}
AbsolutePaths == {<<47>> \o rest : rest \in SeqsUpTo(PathBytes, MaxPathLen - 1)}

\* The texts Uri::from_str is applied to.
UriTexts ==
    {StrBytes(s) : s \in {"file://", "file:///", "file:///a", "file://host",
                          "file://host/a%20b", "file:", "file:?q", "file:#f",
                          "file:a", "file://?q", "http://x/%41", "file:///%FF",
                          "file:///%", "file:///%zz", "file:///a b", "a/b",
                          "file:///a?q#f", "file:///%D1%84"}}

InitUri ==
    /\ input \in AbsolutePaths \cup UriTexts
    /\ call = "none"
    /\ ret = <<>>
    /\ config = Config(EmptyMap, EmptyMap, EmptyMap)
    /\ t = Translator(config)
    /\ meta_model = MetaModel(<<>>, <<>>)
    /\ items = <<>>
    /\ stderr = <<>>
    /\ pc = "function"
    /\ pos = 0
    /\ result = Running
    /\ run = 0
    /\ first = <<>>

\* Uri::from_file_path on the input path.
FromFilePath ==
    /\ call = "none"
    /\ is_absolute(input)
    /\ ret' = <<from_file_path(input)>>
    /\ call' = "from_file_path"
    /\ UNCHANGED <<config, t, input>>
    /\ UNCHANGED passvars

\* Uri::from_str on the input text.
FromStr ==
    /\ call = "none"
    /\ input \in UriTexts
    /\ ret' = <<Uri_from_str(input)>>
    /\ call' = "from_str"
    /\ UNCHANGED <<config, t, input>>
    /\ UNCHANGED passvars

\* Uri::to_file_path on the Uri the first call returned; ret holds what
\* the two calls returned.
ToFilePath ==
    /\ call \in {"from_file_path", "from_str"}
    /\ ret[1] # None
    /\ ret' = Append(ret, to_file_path(ret[1][1]))
    /\ call' = "to_file_path"
    /\ UNCHANGED <<config, t, input>>
    /\ UNCHANGED passvars

NextUri ==
    \/ FromFilePath
    \/ FromStr
    \/ ToFilePath

SpecUri == InitUri /\ [][NextUri]_vars

(***************************************************************************)
(* src/lsp/mod.rs: WatchKind, a bitflags struct over u8, and its serde     *)
(* impls.  A WatchKind is modelled by its bits; a serialized value is the  *)
(* JSON integer.                                                           *)
(***************************************************************************)
\* The flags the bitflags! block declares.
WatchKindFlags == [Create |-> 1, Change |-> 2, Delete |-> 4]

\* a | b and a & b on unsigned integers.
RECURSIVE BitOr(_, _)
BitOr(a, b) ==
    IF a = 0 THEN b
    ELSE IF b = 0 THEN a
    ELSE (IF a % 2 = 1 \/ b % 2 = 1 THEN 1 ELSE 0)
             + 2 * BitOr(a \div 2, b \div 2)

RECURSIVE BitAnd(_, _)
BitAnd(a, b) ==
    IF a = 0 \/ b = 0 THEN 0
    ELSE (IF a % 2 = 1 /\ b % 2 = 1 THEN 1 ELSE 0)
             + 2 * BitAnd(a \div 2, b \div 2)

\* WatchKind::empty() | flag | ...: the union of a set of named flags.
RECURSIVE WatchKind_union(_)
WatchKind_union(names) ==
    IF names = {} THEN 0
    ELSE With(CHOOSE n \in names : TRUE, LAMBDA n :
              BitOr(WatchKindFlags[n], WatchKind_union(names \ {n})))

\* WatchKind::all().bits()
WatchKind_all == WatchKind_union(DOMAIN WatchKindFlags)

\* Mutant of WatchKind_from_bits: from_bits_truncate, the unknown bits
\* dropped.
WatchKind_from_bits_truncate(bits) == Some(BitAnd(bits, WatchKind_all))

\* WatchKind::from_bits: None when a bit of no flag is set.
WatchKind_from_bits(bits) ==
    IF BitAnd(bits, WatchKind_all) = bits THEN Some(bits) ELSE None

SerOk(v) == [tag |-> "ok", val |-> v]
SerErr(msg) == [tag |-> "err", val |-> msg]

\* Lines 1464-1471: serializer.serialize_u8(self.bits())
WatchKind_serialize(bits) == bits

\* Lines 1450-1462: u8::deserialize (an error for a JSON integer that is no
\* u8), then from_bits(i).ok_or_else(invalid_value).
WatchKind_deserialize(json) ==
    IF json \notin 0..255 THEN SerErr("invalid value: expected u8")
    ELSE With(WatchKind_from_bits(json), LAMBDA kind :
              IF kind = None THEN SerErr("invalid value: expected Unknown flag")
              ELSE SerOk(kind[1]))

\* The JSON integers deserialized: every u8 and MaxBeyondU8 integers on
\* either side of the u8 range.
MaxBeyondU8 == 8
JsonIntegers == (0 - MaxBeyondU8)..(255 + MaxBeyondU8)

InitWatch ==
    /\ input \in {[of |-> "WatchKind", val |-> WatchKind_union(names)] :
                     names \in SUBSET DOMAIN WatchKindFlags}
                 \cup {[of |-> "json", val |-> n] : n \in JsonIntegers}
    /\ call = "none"
    /\ ret = <<>>
    /\ config = Config(EmptyMap, EmptyMap, EmptyMap)
    /\ t = Translator(config)
    /\ meta_model = MetaModel(<<>>, <<>>)
    /\ items = <<>>
    /\ stderr = <<>>
    /\ pc = "function"
    /\ pos = 0
    /\ result = Running
    /\ run = 0
    /\ first = <<>>

\* serde_json::to_string on the input WatchKind.
SerializeWatchKind ==
    /\ call = "none"
    /\ input.of = "WatchKind"
    /\ ret' = <<WatchKind_serialize(input.val)>>
    /\ call' = "serialize"
    /\ UNCHANGED <<config, t, input>>
    /\ UNCHANGED passvars

\* serde_json::from_str::<WatchKind> on the input integer, or on what
\* serialize returned; ret holds what the calls returned.
DeserializeWatchKind ==
    /\ \/ call = "none" /\ input.of = "json"
          /\ ret' = <<WatchKind_deserialize(input.val)>>
       \/ call = "serialize"
          /\ ret' = Append(ret, WatchKind_deserialize(ret[1]))
    /\ call' = "deserialize"
    /\ UNCHANGED <<config, t, input>>
    /\ UNCHANGED passvars

NextWatch ==
    \/ SerializeWatchKind
    \/ DeserializeWatchKind

SpecWatch == InitWatch /\ [][NextWatch]_vars

(***************************************************************************)
(* Claims about the functions (checked under SpecFn).                      *)
(***************************************************************************)
\* What Type::translate makes of a lookup_anon result: the configured type,
\* the placeholder with the key recorded, a hard error, or the panic.
AnonOutcome(found, missing) ==
    CASE found.tag = "Ok" -> TyOk(found.val, missing)
      [] found.tag = "ErrSome" -> TyOk("todo!()", missing \cup {found.val})
      [] found.tag = "ErrNone" ->
            TyErr("invalid collection of items for an enum", missing)
      [] found.tag = "panic" -> TyPanic(found.val, missing)

\* C1: for every T that Type::translate turns into a TypeRef X, translating
\* the union Or([T, Base(Null)]) yields the TypeRef Option<X> (and leaves
\* anon_missing as translating T alone leaves it).
C1_OptionOfTranslate ==
    (call = "translate_or" /\ Len(input) = 2 /\ input[2] = Base("Null"))
    => LET x == TypeTranslate(input[1], config.anon_mappings, {})
       IN  x.tag = "ok"
           => /\ ret.tag = "ok"
              /\ ret.val = "Option<" \o x.val \o ">"
              /\ ret.anon_missing = x.anon_missing

\* C1 witness: Or([Array(Reference(A)), Null]) was translated to
\* Option<Vec<A>>.
C1_Witness ==
    /\ call = "translate_or"
    /\ input = <<Array(Reference("A")), Base("Null")>>
    /\ ret.tag = "ok"
    /\ ret.val = "Option<Vec<A>>"

\* C2 as stated: for every T, the reversed union Or([Base(Null), T]) gets
\* the outcome lookup_anon([Null, T]) dictates.
C2_Original ==
    (call = "translate_or" /\ Len(input) = 2 /\ input[1] = Base("Null"))
    => ret = AnonOutcome(lookup_anon(config.anon_mappings, input), {})

\* C2 amended: for every T other than Base(Null) and a zero-property
\* Literal, the reversed union Or([Base(Null), T]) gets the outcome
\* lookup_anon([Null, T]) dictates, and is never an Option<...>.
C2_ReversedFallsThrough ==
    (/\ call = "translate_or"
     /\ Len(input) = 2
     /\ input[1] = Base("Null")
     /\ input[2] # Base("Null")
     /\ ~(input[2].kind = "literal" /\ input[2].value.properties = <<>>))
    => /\ ret = AnonOutcome(lookup_anon(config.anon_mappings, input), {})
       /\ ~(ret.tag = "ok" /\ starts_with(ret.val, "Option<"))

\* C2 witness: Or([Null, Reference(A)]) was translated and ended in the
\* hard error of the anonymous-union path.
C2_Witness ==
    /\ call = "translate_or"
    /\ input = <<Base("Null"), Reference("A")>>
    /\ ret.tag = "err"
    /\ ret.val = "invalid collection of items for an enum"

\* The arms of a list that are not zero-property Literal structures.
RECURSIVE NonEmptyArms(_)
NonEmptyArms(arms) ==
    IF arms = <<>> THEN <<>>
    ELSE LET rest == NonEmptyArms(Tail(arms))
         IN  IF arms[1].kind = "literal" /\ Len(arms[1].value.properties) = 0
             THEN rest
             ELSE <<arms[1]>> \o rest

\* C3: a union whose arms, once the zero-property Literal arms are removed,
\* are a single arm T translates exactly as T does: the same TypeRef, None,
\* error or panic, and the same anon_missing.
C3_SingleArmDegenerates ==
    (call = "translate_or" /\ Len(NonEmptyArms(input)) = 1)
    => ret = TypeTranslate(NonEmptyArms(input)[1], config.anon_mappings, {})

\* C3 witness: Or([{}, Or([A, B]), {}]) was translated as Or([A, B]) is,
\* to the placeholder with the key A|B recorded.
C3_Witness ==
    /\ call = "translate_or"
    /\ input = <<EmptyLiteral, Or(<<Reference("A"), Reference("B")>>), EmptyLiteral>>
    /\ ret.tag = "ok"
    /\ ret.val = "todo!()"
    /\ t.anon_missing = {"A|B"}

\* The text of each arm's reference, joined with | from the left.
RECURSIVE ExpectedKey(_)
ExpectedKey(arms) ==
    IF Len(arms) = 0 THEN ""
    ELSE IF Len(arms) = 1 THEN into_reference(arms[1]).val
    ELSE ExpectedKey(SubSeq(arms, 1, Len(arms) - 1))
             \o "|" \o into_reference(arms[Len(arms)]).val

AllReducible(arms) ==
    \A i \in 1..Len(arms) : into_reference(arms[i]).tag = "some"

\* C4: for reducible arms, lookup_anon joins the arms' reference texts with
\* | in the order given, and returns Ok(the configured type) exactly when
\* anon_mappings has that key and Err(Some(key)) otherwise.
C4_LookupByOrderedKey ==
    (call = "lookup_anon" /\ AllReducible(input))
    => LET key == ExpectedKey(input)
       IN  IF key \in DOMAIN config.anon_mappings
           THEN ret = LookupOk(config.anon_mappings[key])
           ELSE ret = LookupErrSome(key)

\* C4 witness: with only B|A configured, lookup_anon([A, B]) returned
\* Err(Some("A|B")).
C4_Witness ==
    /\ call = "lookup_anon"
    /\ input = <<Reference("A"), Reference("B")>>
    /\ DOMAIN config.anon_mappings = {"B|A"}
    /\ ret = LookupErrSome("A|B")

\* C5 as stated: whenever some arm cannot be reduced by into_reference
\* (a Tuple with an irreducible element included), lookup_anon returns
\* Err(None).
C5_IrreducibleIsErrNone ==
    (call = "lookup_anon" /\ ~AllReducible(input)) => ret = LookupErrNone

(***************************************************************************)
(* Claims about Structure::translate (checked under SpecFn).               *)
(***************************************************************************)
\* The number of indices of a sequence that satisfy a test.
Count(seq, Test(_)) == Cardinality({i \in 1..Len(seq) : Test(seq[i])})

\* C7 as stated: the emitted Struct has as many fields as the structure has
\* properties, less the properties whose type is directly a StringLiteral.
C7_Original ==
    (call = "translate_structure" /\ ret.tag = "ok")
    => Len(ret.val.fields)
           = Len(input) - Count(input, LAMBDA ty : ty.kind = "stringLiteral")

\* The types Type::translate has nothing for: a StringLiteral, an Array of
\* such a type, a Map with such a key or value, a union that (without its
\* zero-property Literal arms) is one such arm or such an arm, then Null.
RECURSIVE YieldsNone(_)
YieldsNone(ty) ==
    CASE ty.kind = "stringLiteral" -> TRUE
      [] ty.kind = "array" -> YieldsNone(ty.element)
      [] ty.kind = "map" -> YieldsNone(ty.key) \/ YieldsNone(ty.value)
      [] ty.kind = "or" ->
            LET arms == NonEmptyArms(ty.items)
            IN  \/ Len(arms) = 1 /\ YieldsNone(arms[1])
                \/ Len(arms) = 2 /\ arms[2] = Base("Null") /\ YieldsNone(arms[1])
      [] OTHER -> FALSE

\* The names of the properties of the input structure that are kept.
KeptNames ==
    LET names == [i \in 1..Len(input) |-> StructureOf(input).properties[i].name]
        kept == {i \in 1..Len(input) : ~YieldsNone(input[i])}
        Rank(i) == Cardinality({j \in kept : j <= i})
    IN  [k \in 1..Cardinality(kept) |->
            names[CHOOSE i \in kept : Rank(i) = k]]

\* C7: for every structure Structure::translate translates without error,
\* the emitted Struct has one field for each property whose type does not
\* translate to None, in the order of the properties; the properties dropped
\* are those whose type is a StringLiteral or an Array, Map or union that
\* passes a StringLiteral's None on, so the number of fields is the number
\* of properties less the number of those.
C7_DropsNoneTyped ==
    (call = "translate_structure" /\ ret.tag = "ok")
    => /\ Len(ret.val.fields) = Len(input) - Count(input, YieldsNone)
       /\ [k \in 1..Len(ret.val.fields) |-> ret.val.fields[k].name] = KeptNames

\* C7 witness: of the properties typed StringLiteral, Array(StringLiteral)
\* and Reference(A), only the last became a field.
C7_Witness ==
    /\ call = "translate_structure"
    /\ input = <<StringLiteral("s"), Array(StringLiteral("s")), Reference("A")>>
    /\ ret.tag = "ok"
    /\ Len(ret.val.fields) = 1
    /\ ret.val.fields[1].name = "p3"

(***************************************************************************)
(* Claims about the pass (checked under Spec).                             *)
(***************************************************************************)
\* No structure or enumeration of the meta-model has a shape its translation
\* stops at.
NoFatalShape ==
    /\ \A i \in 1..Len(meta_model.structures) :
          StructureTranslate(meta_model.structures[i], config.anon_mappings,
                             {}).tag = "ok"
    /\ \A i \in 1..Len(meta_model.enumerations) :
          EnumerationTranslate(meta_model.enumerations[i]).tag = "ok"

IsGenerate(map, name) == name \in DOMAIN map /\ map[name].tag = "Generate"

\* The items of one kind and name; the entities of one name.
ItemsNamed(kind, name) ==
    {j \in 1..Len(items) : items[j].item = kind /\ items[j].val.name = name}

Named(entities, name) ==
    {i \in 1..Len(entities) : entities[i].name = name}

\* C6 as stated: a run on a meta-model with no fatal type shape returns an
\* item list with exactly one Struct item for each structure whose config
\* entry is Generate, exactly one Enum item for each enumeration so
\* configured, and no item for an entity that is configured as Checksum or
\* has no entry.
C6_OneItemPerGenerate ==
    (pc = "done" /\ NoFatalShape)
    => /\ result.tag = "ok"
       /\ \A i \in 1..Len(meta_model.structures) :
             LET name == meta_model.structures[i].name
             IN  Cardinality(ItemsNamed("Struct", name))
                     = IF IsGenerate(config.structs, name)
                       THEN Cardinality(Named(meta_model.structures, name))
                       ELSE 0
       /\ \A i \in 1..Len(meta_model.enumerations) :
             LET name == meta_model.enumerations[i].name
             IN  Cardinality(ItemsNamed("Enum", name))
                     = IF IsGenerate(config.enums, name)
                       THEN Cardinality(Named(meta_model.enumerations, name))
                       ELSE 0

\* C8: when the second run of translate_schema on the same MetaModel and the
\* same Config object is over, it has ended as the first did, with the same
\* item list built, the same structs_missing, enums_missing and
\* anon_missing sets, and the same text on standard error.
C8_SecondRunIdentical ==
    (run = 2 /\ pc \in {"done", "aborted"}) => Outcome = first

\* C8 witness: a second run is over that built an item and recorded a
\* missing structure and a missing anonymous union, as the first did.
C8_Witness ==
    /\ run = 2
    /\ pc = "done"
    /\ items # <<>>
    /\ t.structs_missing # {}
    /\ t.anon_missing # {}
    /\ first = Outcome

\* The loops are at an entity whose config entry is Checksum.
AtChecksumStructure ==
    InStructures /\ struct_option # None /\ struct_option[1].tag = "Checksum"

AtChecksumEnumeration ==
    InEnumerations /\ enum_option # None /\ enum_option[1].tag = "Checksum"

\* The step wrote one line, a hash-mismatch warning for the entity, or
\* nothing, according to differ.
WarnedIff(differ, kind, name) ==
    IF differ
    THEN /\ Len(stderr') = Len(stderr) + 1
         /\ SubSeq(stderr', 1, Len(stderr)) = stderr
         /\ starts_with(stderr'[Len(stderr')],
                        "Hash mismatch for " \o kind \o " " \o name \o ",")
    ELSE stderr' = stderr

\* C9: the step on a structure or enumeration whose config entry is
\* Checksum(h) adds no item and records nothing as missing (the entity's
\* name is in no missing set), writes a hash-mismatch warning if and only if
\* the entity's fingerprint differs from h, and leaves the pass in the same
\* loop at the next entity, not ended.
C9_ChecksumOnlyWarns ==
    [][/\ AtChecksumStructure
          => /\ items' = items
             /\ t'.structs_missing = t.structs_missing
             /\ structure_at.name \notin t'.structs_missing
             /\ WarnedIff(hash_of_structure[structure_at] # struct_option[1].val,
                          "structure", structure_at.name)
             /\ pc' = "structures" /\ pos' = pos + 1 /\ result' = Running
       /\ AtChecksumEnumeration
          => /\ items' = items
             /\ t'.enums_missing = t.enums_missing
             /\ enumeration_at.name \notin t'.enums_missing
             /\ WarnedIff(hash_of_enumeration[enumeration_at] # enum_option[1].val,
                          "enumeration", enumeration_at.name)
             /\ pc' = "enumerations" /\ pos' = pos + 1 /\ result' = Running
      ]_vars

\* C9 witness: the structure Foo, pinned to another structure's checksum,
\* was passed with a warning and nothing else, and the pass is at the next
\* structure.
C9_Witness ==
    /\ pc = "structures"
    /\ pos = 2
    /\ Len(meta_model.structures) = 2
    /\ meta_model.structures[1] = FooTuple
    /\ IsGenerate(config.structs, "Foo") = FALSE
    /\ "Foo" \in DOMAIN config.structs
    /\ items = <<>>
    /\ t.structs_missing = {}
    /\ Len(stderr) = 1
    /\ starts_with(stderr[1], "Hash mismatch for structure Foo,")
    /\ result = Running

\* A structure that is another with some property changed.
Mutation(original, structure) ==
    /\ structure.name = original.name
    /\ Len(structure.properties) = Len(original.properties)
    /\ structure.properties # original.properties

\* C10 as stated: when the pass comes to a structure that is a mutation of
\* the structure its Checksum entry was computed from, it writes a drift
\* warning.
C10_MutationWarns ==
    [][(/\ AtChecksumStructure
        /\ \E original \in Structures :
              /\ Mutation(original, structure_at)
              /\ hash_of_structure[original] = struct_option[1].val)
       => stderr' # stderr
      ]_vars

\* The names of the entities of a list.
NamesOf(entities) == {entities[i].name : i \in 1..Len(entities)}

\* C11 as stated: after a completed pass, structs_missing is the set of the
\* structure names of the meta-model with no entry in the caller's
\* config.structs and enums_missing the set of the enumeration names with no
\* entry in config.enums, whatever the meta-model, one that lists a name
\* more than once included.
C11_MissingAreUnconfigured ==
    pc = "done"
    => /\ t.structs_missing
              = NamesOf(meta_model.structures) \ DOMAIN config.structs
       /\ t.enums_missing
              = NamesOf(meta_model.enumerations) \ DOMAIN config.enums

(***************************************************************************)
(* Claims about unions without a mapping (checked under SpecFn).           *)
(***************************************************************************)
\* A union of two or more reducible arms whose key has no mapping.
UnmappedUnion(ty) ==
    /\ ty.kind = "or"
    /\ Len(ty.items) >= 2
    /\ AllReducible(ty.items)
    /\ ExpectedKey(ty.items) \notin DOMAIN config.anon_mappings

\* The type translates, to a TypeRef or to nothing.
Translatable(ty) ==
    TypeTranslate(ty, config.anon_mappings, {}).tag \in {"ok", "none"}

\* C12: when property i of a structure is a union of two or more reducible
\* arms whose key has no entry in anon_mappings, Structure::translate
\* records the key in anon_missing as soon as the properties before i have
\* translated, and if the other properties translate the structure is
\* emitted, with field i typed with the placeholder and every other property
\* that has a type as a field, in order.
C12_UnmappedUnionIsSoft ==
    call = "translate_structure"
    => \A i \in 1..Len(input) :
          UnmappedUnion(input[i])
          => /\ (\A j \in 1..(i - 1) : Translatable(input[j]))
                => ExpectedKey(input[i].items) \in t.anon_missing
             /\ (\A j \in 1..Len(input) : Translatable(input[j]))
                => /\ ret.tag = "ok"
                   /\ \E k \in 1..Len(ret.val.fields) :
                         /\ ret.val.fields[k].name
                                = StructureOf(input).properties[i].name
                         /\ ret.val.fields[k].ty = "todo!()"
                   /\ [k \in 1..Len(ret.val.fields) |-> ret.val.fields[k].name]
                          = KeptNames

\* C12 witness: the structure with properties typed Or([A, B]) and
\* Reference(A), no mapping for A|B, was emitted with both fields, the first
\* typed with the placeholder, and A|B is in anon_missing.
C12_Witness ==
    /\ call = "translate_structure"
    /\ input = <<Or(<<Reference("A"), Reference("B")>>), Reference("A")>>
    /\ config.anon_mappings = EmptyMap
    /\ ret.tag = "ok"
    /\ Len(ret.val.fields) = 2
    /\ ret.val.fields[1].ty = "todo!()"
    /\ ret.val.fields[2].ty = "A"
    /\ t.anon_missing = {"A|B"}

\* A type of one of the shapes Type::translate refuses, in a position it
\* reaches: a Tuple, a Literal (zero-property Literal arms of a union are
\* filtered first), an IntegerLiteral, a BooleanLiteral, Base(RegExp), or a
\* union of two or more arms, not [T, Null], with an arm that does not
\* reduce to a reference.
RECURSIVE FatalShape(_)
FatalShape(ty) ==
    CASE ty.kind \in {"tuple", "literal", "integerLiteral", "booleanLiteral"}
            -> TRUE
      [] ty.kind = "base" -> ty.name = "RegExp"
      [] ty.kind = "array" -> FatalShape(ty.element)
      [] ty.kind = "map" ->
            \/ FatalShape(ty.key)
            \/ ~YieldsNone(ty.key) /\ FatalShape(ty.value)
      [] ty.kind = "or" ->
            LET arms == NonEmptyArms(ty.items)
            IN  IF Len(arms) = 1 THEN FatalShape(arms[1])
                ELSE IF Len(arms) = 2 /\ arms[2] = Base("Null")
                THEN FatalShape(arms[1])
                ELSE ~AllReducible(arms)
      [] OTHER -> FALSE

\* The first loop is at a structure whose config entry is Generate.
AtGenerateStructure ==
    InStructures /\ struct_option # None /\ struct_option[1].tag = "Generate"

\* Property i of the structure is of a fatal shape and is reached: the
\* properties before it translate.
ReachesFatal(structure) ==
    \E i \in 1..Len(structure.properties) :
        /\ FatalShape(structure.properties[i].type_)
        /\ \A j \in 1..(i - 1) : Translatable(structure.properties[j].type_)

\* C13: when the pass comes to a structure configured as Generate that has
\* a property of a fatal shape (Tuple, Literal, IntegerLiteral,
\* BooleanLiteral, Base(RegExp), or a union lookup_anon answers Err(None)
\* for) after properties that translate, the step ends the pass there with
\* an error or a panic: no item is added for the structure, the pass does
\* not move to the next entity, an ended pass has no Ok result, and the
\* only step after the abort is a new call.
C13_FatalShapeAborts ==
    [][/\ (AtGenerateStructure /\ ReachesFatal(structure_at))
          => /\ pc' = "aborted"
             /\ result'.tag \in {"err", "panic"}
             /\ items' = items
             /\ pos' = pos
       /\ pc = "aborted"
          => /\ result.tag \in {"err", "panic"}
             /\ run' = run + 1
             /\ pc' = "structures" /\ pos' = 1 /\ items' = <<>>]_vars

\* C13 witness: the pass aborted with an error at its first structure, Foo
\* with a union of an irreducible arm after a property that translates,
\* with one more entity after it left unprocessed.
C13_Witness ==
    /\ pc = "aborted"
    /\ run = 1
    /\ pos = 1
    /\ meta_model.structures[1] = FooWith(IrreducibleUnion)
    /\ Len(meta_model.structures) + Len(meta_model.enumerations) = 2
    /\ result.tag = "err"
    /\ items = <<>>

\* The block that lists a missing set is on standard error.
Reported(header, missing) ==
    \E k \in 1..Len(stderr) : stderr[k] = <<header, missing>>

\* C14 as stated: a run on a meta-model with no fatal shape (entities
\* without config entry, unions without anon mapping and checksum
\* mismatches allowed) that is over has not aborted, has reported each
\* non-empty missing set, and has returned Ok.
C14_RecoverableReturnsOk ==
    (pc \in {"done", "aborted"} /\ NoFatalShape)
    => /\ pc = "done"
       /\ t.structs_missing # {}
          => Reported("These structs are missing. Add them.", t.structs_missing)
       /\ t.enums_missing # {}
          => Reported("These enums are missing. Add them.", t.enums_missing)
       /\ t.anon_missing # {}
          => Reported("These anon mappings are missing. Add them.",
                      t.anon_missing)
       /\ result.tag = "ok"

\* The Struct items and the Enum items of the list, in the list's order.
StructItems == SelectSeq(items, LAMBDA it : it.item = "Struct")
EnumItems == SelectSeq(items, LAMBDA it : it.item = "Enum")

NamesIn(seq) == [i \in 1..Len(seq) |-> seq[i].name]

\* The names of a structure's properties whose type does not translate to
\* None, in property order.
FieldNamesOf(structure) ==
    NamesIn(SelectSeq(structure.properties, LAMBDA p : ~YieldsNone(p.type_)))

Increasing(f) == \A i, j \in DOMAIN f : i < j => f[i] < f[j]

C16_RenderingInjective ==
    call = "type_ref"
    => (ret[1] = ret[2] => input[1] = input[2])

\* C17 as stated: into_reference gives a TypeRef for every Reference, for
\* every Base primitive, for every Array whose element reduces and for
\* every Tuple whose elements all reduce, and no reference for a Map, a
\* union, a Literal, a StringLiteral, an IntegerLiteral or a BooleanLiteral.
C17_ReducesAsStated ==
    call = "into_reference"
    => LET ty == input[1]
       IN  /\ ty.kind = "reference" => ret = RefSome(ty.name)
           /\ ty.kind = "base" => ret.tag = "some"
           /\ (ty.kind = "array" /\ AllReducible(<<ty.element>>))
              => ret.tag = "some"
           /\ (ty.kind = "tuple" /\ AllReducible(ty.items)) => ret.tag = "some"
           /\ ty.kind \in {"map", "or", "literal", "stringLiteral",
                           "integerLiteral", "booleanLiteral"}
              => ret.tag = "none"

\* The map without the entry of name, the other entries as they were.
Without(map, name) == [k \in DOMAIN map \ {name} |-> map[k]]

\* The entries of after are entries of before.
SubMap(after, before) ==
    /\ DOMAIN after \subseteq DOMAIN before
    /\ \A k \in DOMAIN after : after[k] = before[k]

\* C18: the step on a structure or enumeration whose name has an entry in
\* the translator's working config (Generate or Checksum, translation
\* failing or not) removes that entry and no other; no step of a pass adds
\* or changes an entry; and when a pass has completed, the entries left in
\* the working structs and enums maps are exactly the caller's entries
\* whose names occur nowhere in the meta-model.
C18_EntriesConsumed ==
    [][/\ (InStructures /\ struct_option # None)
          => /\ t'.config.structs = Without(t.config.structs, structure_at.name)
             /\ t'.config.enums = t.config.enums
       /\ (InEnumerations /\ enum_option # None)
          => /\ t'.config.enums = Without(t.config.enums, enumeration_at.name)
             /\ t'.config.structs = t.config.structs
       /\ run' = run
          => /\ SubMap(t'.config.structs, t.config.structs)
             /\ SubMap(t'.config.enums, t.config.enums)
       /\ pc' = "done"
          => /\ SubMap(t'.config.structs, config.structs)
             /\ DOMAIN t'.config.structs
                    = DOMAIN config.structs \ NamesOf(meta_model.structures)
             /\ SubMap(t'.config.enums, config.enums)
             /\ DOMAIN t'.config.enums
                    = DOMAIN config.enums \ NamesOf(meta_model.enumerations)]_vars

\* C18 witness: a completed pass over the structure Foo and the enumeration
\* Kind, with entries for Foo, Bar and Kind, has only Bar's entry left.
C18_Witness ==
    /\ pc = "done"
    /\ meta_model.structures = <<FooStructure>>
    /\ meta_model.enumerations = <<KindEnumeration>>
    /\ DOMAIN config.structs = {"Foo", "Bar"}
    /\ DOMAIN config.enums = {"Kind"}
    /\ DOMAIN t.config.structs = {"Bar"}
    /\ t.config.structs["Bar"] = config.structs["Bar"]
    /\ t.config.enums = EmptyMap

(***************************************************************************)
(* C19: for every absolute file path p, Uri::from_file_path(p) returns     *)
(* Some(u) and u.to_file_path() returns Some(p), whatever bytes p holds    *)
(* (spaces, brackets, non-ASCII characters).  Only the first call of a run *)
(* on an absolute path is from_file_path: no text starting with / parses   *)
(* as a URI.  Equal bytes are equal paths, and the paths this fails for    *)
(* differ in the bytes of a component.                                     *)
(***************************************************************************)
C19_FilePathRoundTrip ==
    /\ call = "from_file_path" => ret[1] # None
    /\ call = "to_file_path" /\ is_absolute(input) => ret[2] = Some(input)

(***************************************************************************)
(* C20: Uri::to_file_path returns None for every URI whose decoded path    *)
(* is empty, and Some(path) for every URI whose decoded path is not.       *)
(***************************************************************************)
C20_NoneIffEmptyPath ==
    call = "to_file_path" =>
        /\ ret[2] = None <=> percent_decode(ret[1][1].path) = <<>>
        /\ ret[2] # None => Len(ret[2]) = 1 /\ ret[2][1] # <<>>

C20_Witness ==
    /\ call = "to_file_path"
    /\ input = StrBytes("file://")
    /\ ret[1] # None
    /\ percent_decode(ret[1][1].path) = <<>>
    /\ ret[2] = None

(***************************************************************************)
(* Claims about WatchKind (checked under SpecWatch).                       *)
(***************************************************************************)
\* The sum of the values of a set of distinct powers of two.
RECURSIVE SumOf(_)
SumOf(values) ==
    IF values = {} THEN 0
    ELSE LET v == CHOOSE x \in values : TRUE IN v + SumOf(values \ {v})

\* C21: every WatchKind that is the union of a subset of Create, Change and
\* Delete serializes to the integer with exactly the bits 1, 2, 4 of its
\* flags set, and that integer deserializes to the same WatchKind; an
\* integer with a bit other than 1, 2, 4 set (a negative one and one beyond
\* 255 included) deserializes to an error.
C21_WatchKindRoundTrip ==
    /\ (call \in {"serialize", "deserialize"} /\ input.of = "WatchKind")
       => \E names \in SUBSET {"Create", "Change", "Delete"} :
             /\ ret[1] = SumOf({IF n = "Create" THEN 1
                                ELSE IF n = "Change" THEN 2 ELSE 4 : n \in names})
             /\ call = "deserialize" => ret[2] = SerOk(input.val)
    /\ (call = "deserialize" /\ input.of = "json" /\ input.val \notin 0..7)
       => ret[1].tag = "err"
    /\ (call = "deserialize" /\ input.of = "json" /\ input.val \in 0..7)
       => ret[1] = SerOk(input.val)

\* C21 witness: Create | Delete was serialized to 5 and read back.
C21_Witness ==
    /\ call = "deserialize"
    /\ input = [of |-> "WatchKind", val |-> 5]
    /\ ret = <<5, SerOk(5)>>

(***************************************************************************)
(* Claims about None in containers (checked under SpecFn).                 *)
(***************************************************************************)
\* Type::translate of a type on its own, with nothing recorded before.
Translated(ty) == TypeTranslate(ty, config.anon_mappings, {})

\* No field of the emitted Struct is that of a property whose type
\* translates to None.
NoneTypedOmitted ==
    (call = "translate_structure" /\ ret.tag = "ok")
    => \A i \in 1..Len(input) :
          Translated(input[i]).tag = "none"
          => \A k \in 1..Len(ret.val.fields) :
                ret.val.fields[k].name # StructureOf(input).properties[i].name

\* Array(e) is None exactly when e is, and Vec<e> when e has a TypeRef.
ArrayPropagates ==
    (call = "translate_type" /\ input[1].kind = "array")
    => LET e == Translated(input[1].element)
       IN  /\ ret.tag = "none" <=> e.tag = "none"
           /\ e.tag = "ok" => ret.tag = "ok" /\ ret.val = "Vec<" \o e.val \o ">"

\* C22 as stated: Array(e) is None exactly when translate(e) is None and
\* otherwise Vec<translate(e)>; Map(k, v) is None exactly when translate(k)
\* or translate(v) is None and otherwise HashMap<translate(k),translate(v)>;
\* a property whose type translates to None is not in the emitted Struct.
C22_Original ==
    /\ ArrayPropagates
    /\ (call = "translate_type" /\ input[1].kind = "map")
       => LET k == Translated(input[1].key)
              v == Translated(input[1].value)
          IN  /\ ret.tag = "none" <=> (k.tag = "none" \/ v.tag = "none")
              /\ (k.tag = "ok" /\ v.tag = "ok")
                 => /\ ret.tag = "ok"
                    /\ ret.val = "std::collections::HashMap<"
                                     \o k.val \o "," \o v.val \o ">"
    /\ NoneTypedOmitted

\* C22 amended: Array(e) is None exactly when translate(e) is None, Vec<e>
\* when e has a TypeRef, and fails as e fails; Map(k, v) translates k first:
\* it fails as k fails, is None when k is None (v is not looked at), and
\* otherwise fails as v fails, is None when v is None and is
\* HashMap<translate(k),translate(v)> when both have a TypeRef; a property
\* whose type translates to None is not in the emitted Struct.
C22_NonePropagates ==
    /\ ArrayPropagates
    /\ (call = "translate_type" /\ input[1].kind = "array")
       => LET e == Translated(input[1].element)
          IN  e.tag \in {"err", "panic"} => ret = e
    /\ (call = "translate_type" /\ input[1].kind = "map")
       => LET k == Translated(input[1].key)
              v == Translated(input[1].value)
          IN  /\ ret.tag = "none"
                 <=> (k.tag = "none" \/ (k.tag = "ok" /\ v.tag = "none"))
              /\ k.tag \in {"err", "panic"} => ret.tag = k.tag /\ ret.val = k.val
              /\ (k.tag = "ok" /\ v.tag \in {"err", "panic"})
                 => ret.tag = v.tag /\ ret.val = v.val
              /\ (k.tag = "ok" /\ v.tag = "ok")
                 => /\ ret.tag = "ok"
                    /\ ret.val = "std::collections::HashMap<"
                                     \o k.val \o "," \o v.val \o ">"
    /\ NoneTypedOmitted

\* C22 witness: Map(String, StringLiteral) was translated to None.
C22_Witness ==
    /\ call = "translate_type"
    /\ input = <<Map(Base("String"), StringLiteral("s"))>>
    /\ ret.tag = "none"

(***************************************************************************)
(* Claims about the order of the union rules (checked under SpecFn).       *)
(***************************************************************************)
\* C23: Type::translate of a union first drops the zero-property Literal
\* arms; if one arm T is left the result is that of T; else if the arms left
\* are [T, Null] the result is Option<translate(T)> when T has a TypeRef
\* (and that of T when it has none or fails); and only otherwise it is what
\* lookup_anon on the arms left dictates, so that lookup_anon never sees a
\* zero-property Literal arm (it would answer Err(None) for it).
C23_UnionRulesInOrder ==
    call = "translate_or"
    => LET arms == NonEmptyArms(input)
       IN  IF Len(arms) = 1 THEN ret = Translated(arms[1])
           ELSE IF Len(arms) = 2 /\ arms[2] = Base("Null")
           THEN LET x == Translated(arms[1])
                IN  IF x.tag = "ok"
                    THEN ret = TyOk("Option<" \o x.val \o ">", x.anon_missing)
                    ELSE ret = x
           ELSE ret = AnonOutcome(lookup_anon(config.anon_mappings, arms), {})

\* C23 witness: the union of a zero-property Literal, A and a final Null was
\* translated to Option<A>.
C23_Witness ==
    /\ call = "translate_or"
    /\ input = <<EmptyLiteral, Reference("A"), Base("Null")>>
    /\ ret = TyOk("Option<A>", {})

(***************************************************************************)
(* Claims about enumerations (checked under Spec).                         *)
(***************************************************************************)
\* The second loop is at an enumeration whose config entry is Generate.
AtGenerateEnumeration ==
    InEnumerations /\ enum_option # None /\ enum_option[1].tag = "Generate"

\* C24: the step of the pass on an enumeration configured as Generate adds
\* an Enum item only if the enumeration's kind is String, and the item then
\* has one variant for each entry, in order; for the kind Integer or
\* Uinteger the translation returns an error: no item is added and the pass
\* ends there with that error.
C24_OnlyStringEnums ==
    [][AtGenerateEnumeration
       => /\ enumeration_at.type_.name \in {"integer", "uinteger"}
             => /\ pc' = "aborted"
                /\ result'.tag = "err"
                /\ items' = items
                /\ pos' = pos
          /\ items' # items
             => /\ enumeration_at.type_.name = "string"
                /\ items' = Append(items, items'[Len(items')])
                /\ items'[Len(items')].item = "Enum"
                /\ NamesIn(items'[Len(items')].val.variants)
                       = NamesIn(enumeration_at.values)]_vars

\* C24 witness: the pass ended with the error of the unsigned integer
\* enumeration Kind, after the item of the structure Foo was added.
C24_Witness ==
    /\ pc = "aborted"
    /\ meta_model.structures = <<FooStructure>>
    /\ meta_model.enumerations = <<NumberEnumeration("uinteger")>>
    /\ result = RunErr("translating enumeration Kind: translate uint enums")
    /\ Len(items) = 1

\* C25: no step of a run of translate_schema, completed or aborted, and no
\* new call changes the caller's Config: its anon_mappings, structs and
\* enums stay what they were before the call, while the translator removes
\* entries from its own copy.
C25_CallerConfigKept ==
    [][/\ config'.anon_mappings = config.anon_mappings
       /\ config'.structs = config.structs
       /\ config'.enums = config.enums
       /\ SubMap(t'.config.structs, config.structs)
       /\ SubMap(t'.config.enums, config.enums)
       /\ t'.config.anon_mappings = config.anon_mappings]_vars

\* C25 witness: a run aborted at the structure Foo, whose entry the
\* translator has removed from its copy and the caller's Config still has.
C25_Witness ==
    /\ pc = "aborted"
    /\ run = 1
    /\ meta_model.structures[1].name = "Foo"
    /\ pos = 1
    /\ "Foo" \in DOMAIN config.structs
    /\ "Foo" \notin DOMAIN t.config.structs

(***************************************************************************)
(* Claims about unions without arms (checked under SpecFn).                *)
(***************************************************************************)
\* C26: a union with no arm left once its zero-property Literal arms are
\* dropped (no arms at all, or zero-property Literal arms only) is never a
\* hard error: it translates to the type anon_mappings gives for the key ""
\* if there is one, and otherwise to the placeholder, with "" recorded in
\* anon_missing; and lookup_anon on the empty list answers for the key "".
C26_EmptyUnionIsSoft ==
    /\ ( \/ call = "translate_or" /\ NonEmptyArms(input) = <<>>
         \/ call = "translate_type" /\ input = <<Or(<<>>)>> )
       => /\ ret.tag = "ok"
          /\ IF "" \in DOMAIN config.anon_mappings
             THEN ret.val = config.anon_mappings[""] /\ t.anon_missing = {}
             ELSE ret.val = "todo!()" /\ t.anon_missing = {""}
    /\ (call = "lookup_anon" /\ input = <<>>)
       => IF "" \in DOMAIN config.anon_mappings
          THEN ret = LookupOk(config.anon_mappings[""])
          ELSE ret = LookupErrSome("")

\* C26 witness: the union of two zero-property Literal arms was translated
\* to the placeholder and the empty key recorded.
C26_Witness ==
    /\ call = "translate_or"
    /\ input = <<EmptyLiteral, EmptyLiteral>>
    /\ ret = TyOk("todo!()", {""})
    /\ t.anon_missing = {""}

\* C27 as stated: two unions of reducible arms for whose arm lists
\* lookup_anon builds the same key have the same arm list.
C27_KeyIdentifiesArms ==
    (/\ call = "lookup_anon_pair"
     /\ ret.one.tag = "ErrSome"
     /\ ret.other.tag = "ErrSome"
     /\ ret.one.val = ret.other.val)
    => input[1] = input[2]

(***************************************************************************)
(* C28: Type::into_reference against Type::translate.                      *)
(***************************************************************************)
\* A Base primitive, a Reference, or an Array of one of those.
PrimitiveOrReference(ty) ==
    \/ ty.kind \in {"base", "reference"}
    \/ /\ ty.kind = "array"
       /\ ty.element.kind \in {"base", "reference"}

\* C28 as stated: for a Base primitive, a Reference or an Array of those,
\* when into_reference returns Some(r) and translate returns Some(t) the two
\* render to the same text, and into_reference returns Some for every Base
\* primitive for which translate returns Some.
C28_ReferenceAgreesWithTranslate ==
    (call = "translate_type" /\ PrimitiveOrReference(input[1]))
    => /\ (into_reference(input[1]).tag = "some" /\ ret.tag = "ok")
             => into_reference(input[1]).val = ret.val
       /\ (input[1].kind = "base" /\ ret.tag = "ok")
             => into_reference(input[1]).tag = "some"

(***************************************************************************)
(* C29: Version::parse.                                                    *)
(***************************************************************************)
\* The releases the Version enum lists, by number.
ReleaseNumbers ==
    {"3.2.0", "3.6.0", "3.8.0", "3.10.0", "3.12.0", "3.13.0", "3.14.0",
     "3.15.0", "3.16.0", "3.17.0", "3.18.0"}

\* The name of the variant of a release number: V3_16_0 for 3.16.0.
RECURSIVE DotsToUnderscores(_)
DotsToUnderscores(number) ==
    IF number = "" THEN ""
    ELSE (IF SubSeq(number, 1, 1) = "." THEN "_" ELSE SubSeq(number, 1, 1))
         \o DotsToUnderscores(SubSeq(number, 2, Len(number)))

VariantOfNumber(number) == "V" \o DotsToUnderscores(number)

\* The variant of the same number as the normalised text, if there is one.
SameNumberVariant(since) ==
    IF since = None THEN VerOk("Unknown")
    ELSE With(version_normalise(since[1]), LAMBDA number :
         IF number \in ReleaseNumbers THEN VerOk(VariantOfNumber(number))
         ELSE IF number \in {"3.16", "3.17"}
              THEN VerOk(VariantOfNumber(number \o ".0"))
              ELSE VerErr(number))

\* C29 as stated: Version::parse answers the variant of the same number as
\* the normalised text (None gives Unknown, X.Y.0 gives VX_Y_0, 3.16 and
\* 3.17 give the variants of 3.16.0 and 3.17.0) and an error for any other
\* text.
C29_VariantOfSameNumber ==
    call = "version_parse"
    => /\ ret.tag = SameNumberVariant(input).tag
       /\ ret.tag = "ok" => ret.val = SameNumberVariant(input).val

(***************************************************************************)
(* C30: an unrecognised `since` (checked under Spec).                      *)
(***************************************************************************)
\* The entity with every `since` absent.
StructureWithoutSince(structure) ==
    [structure EXCEPT
        !.since = None,
        !.properties = [i \in 1..Len(structure.properties) |->
                           [structure.properties[i] EXCEPT !.since = None]]]

EnumerationWithoutSince(enumeration) ==
    [enumeration EXCEPT
        !.since = None,
        !.values = [i \in 1..Len(enumeration.values) |->
                       [enumeration.values[i] EXCEPT !.since = None]]]

\* The structure with a `since` of no release on every property whose type
\* translates to None.
StructureWithDroppedSince(structure) ==
    [structure EXCEPT
        !.properties =
            [i \in 1..Len(structure.properties) |->
                IF TypeTranslate(structure.properties[i].type_,
                                 t.config.anon_mappings, t.anon_missing).tag
                       = "none"
                THEN [structure.properties[i] EXCEPT !.since = Some("4.0")]
                ELSE structure.properties[i]]]

\* C30 as stated: a step of the pass on an entity configured as Generate
\* that translates with every `since` absent and does not translate as it
\* is (a `since` of the structure, of a property that is kept, of the
\* enumeration or of an entry is unrecognised) ends the pass with a returned
\* error, never a panic; and a `since` on a dropped property changes nothing.
C30_SinceErrorsReturned ==
    [][/\ (/\ AtGenerateEnumeration
           /\ EnumerationTranslate(
                  EnumerationWithoutSince(enumeration_at)).tag = "ok"
           /\ EnumerationTranslate(enumeration_at).tag # "ok")
          => pc' = "aborted" /\ result'.tag = "err"
       /\ (/\ AtGenerateStructure
           /\ StructureTranslate(StructureWithoutSince(structure_at),
                                 t.config.anon_mappings,
                                 t.anon_missing).tag = "ok"
           /\ StructureTranslate(structure_at, t.config.anon_mappings,
                                 t.anon_missing).tag # "ok")
          => pc' = "aborted" /\ result'.tag = "err"
       /\ AtGenerateStructure
          => StructureTranslate(StructureWithDroppedSince(structure_at),
                                t.config.anon_mappings, t.anon_missing)
                 = StructureTranslate(structure_at, t.config.anon_mappings,
                                      t.anon_missing)]_vars

====
